---------------------------- MODULE Spec2Model ----------------------------
(***************************************************************************)
(* A model of the ACORD extraction service: the form detector, the field   *)
(* extractor, the direct mapper, the extraction pipeline, the validation   *)
(* rules store and the product-name validation cascade.                    *)
(*                                                                         *)
(* Python strings that the code inspects character by character (strip,    *)
(* lower, startswith, endswith, substring, split) are sequences of         *)
(* one-character strings.  Python values are tagged records: None, a bool, *)
(* a str.  A Python dict whose iteration order matters is a sequence of    *)
(* <<key, value>> pairs with distinct keys (insertion order).              *)
(***************************************************************************)
EXTENDS Integers, Sequences, FiniteSets, TLC

VARIABLES
    \* ---- AcordExtractionPipeline.process ----
    pdf,             \* the PDF document on disk
    io2,             \* whether the second read of the file (extraction) works
    llm,             \* what the chat-completion call does in this run
    field_mappings,  \* the FieldMappingTable (fieldMappings of the JSON file)
    pc,              \* position inside process()
    result,          \* the result dict of process()
    calls,           \* the components process() has invoked, in order
    detection,       \* local: detect_acord_form's return value
    extraction,      \* local: extract_form_fields' return value
    openai_data,     \* local: extract_for_openai_from_result's return value
    organization,    \* local: organizer.organize's return value
    orgInput,        \* the argument organize() was called with
    \* ---- DirectMapper.direct_map ----
    rawFieldMap,     \* the RawFieldMap of the last direct_map call
    mapped,          \* what that call returned
    \* ---- RulesService and the validation_rules table ----
    validation_rules,  \* the rows of the table
    identity,          \* the next value of the table's IDENTITY column
    outcome,           \* how the last RulesService call ended
    last_call,         \* a bulk request: its name, its argument, the rows before it
    \* ---- ValidationService.validate_data ----
    extractData,               \* extraction_service.extract_data(file)
    save_result,               \* _save_document_and_content(...)
    success,                   \* "success" of the returned dict
    extracted_product_names,   \* _extract_product_names(formatted_data)
    active_rules,              \* _get_active_rules_by_certificate_type(...)
    vpc,                       \* position inside validate_data
    normalized_products,
    expanded_rules,
    matched_rule,
    matched_rule_product_name,
    match_type,
    match_score,
    validation_status,
    \* ---- UniversalPDFExtractor.extract_pdf ----
    pdf_path,        \* the file at pdf_path
    openai_service,  \* whether get_openai_service() returns a service
    ai_reply,        \* what extract_universal_data returns in this run
    upc,             \* position inside extract_pdf
    pypdf_task,      \* the executor future of run_pypdf
    ocr_task,        \* the executor future of run_ocr
    direct_text,     \* local
    full_text,       \* local
    form_fields,     \* local
    extract_result,  \* the dict extract_pdf returned
    task_log,        \* launches and awaits of the two futures, in order
    \* ---- AcordOrganizer.organize ----
    orgFields,       \* the raw_fields argument
    orgLlm,          \* what the chat-completion call does in this run
    opc,             \* position inside organize
    llm_calls,       \* the chat_completion calls made
    org_result,      \* the dict organize returned
    \* ---- detect_acord_form on two documents ----
    docA,            \* a PDF document
    docB,            \* a PDF document whose fields are among docA's
    detA,            \* detect_acord_form(docA)
    detB,            \* detect_acord_form(docB)
    \* ---- format_checkbox ----
    cbValue,         \* the argument
    cbResult,        \* what format_checkbox returned
    cbMapped,        \* format_checkbox of the value normalize_value returned
    \* ---- ExtractionController.extract_data, VectorizeService.vectorize_pdf ----
    endpoint,        \* which of the two handles the request
    upload,          \* what the components do in this request
    xpc,             \* position inside the handler
    stored,          \* whether the uploaded file is on disk
    cleanup,         \* whether its deletion was performed or scheduled
    service_result,  \* what ExtractionService.extract_data returned
    http_response,   \* what the handler returned
    \* ---- _clean_field_name, _is_checkbox_checked ----
    rawName,         \* a field name as the PDF holds it
    cleanName,       \* _clean_field_name(rawName)
    buttonField,     \* a button field of the PDF
    isChecked,       \* _is_checkbox_checked(buttonField)
    \* ---- normalize_text ----
    ntInput,         \* the argument
    ntOnce,          \* normalize_text(ntInput)
    ntTwice,         \* normalize_text(ntOnce)
    \* ---- EmbeddingService.embed_batch ----
    emTexts,         \* the texts argument
    emApi,           \* what each call of the embeddings API does
    emAttempt,       \* the loop variable attempt
    emCalls,         \* the calls of the API made
    emResult,        \* what embed_batch returned
    \* ---- two RulesService calls whose steps interleave ----
    callA,           \* the first call and its position
    callB            \* the second call and its position

pipelineVars ==
    <<pdf, io2, llm, field_mappings, pc, result, calls, detection,
      extraction, openai_data, organization, orgInput>>

mapperVars == <<rawFieldMap, mapped>>

rulesVars == <<validation_rules, identity, outcome, last_call>>

validateVars ==
    <<extractData, save_result, success, extracted_product_names,
      active_rules, vpc, normalized_products,
      expanded_rules, matched_rule, matched_rule_product_name, match_type,
      match_score, validation_status>>

universalVars ==
    <<pdf_path, openai_service, ai_reply, upc, pypdf_task, ocr_task,
      direct_text, full_text, form_fields, extract_result, task_log>>

organizerVars == <<orgFields, orgLlm, opc, llm_calls, org_result>>

\* the state of the components modelled after the validation cascade
detectorVars == <<docA, docB, detA, detB>>

formatterVars == <<cbValue, cbResult, cbMapped>>

uploadVars ==
    <<endpoint, upload, xpc, stored, cleanup, service_result, http_response>>

helperVars == <<rawName, cleanName, buttonField, isChecked>>

normalizeVars == <<ntInput, ntOnce, ntTwice>>

embedVars == <<emTexts, emApi, emAttempt, emCalls, emResult>>

concurrentVars == <<callA, callB>>

finalVars ==
    <<uploadVars, helperVars, normalizeVars, embedVars, concurrentVars>>

laterVars ==
    <<universalVars, organizerVars, detectorVars, formatterVars, finalVars>>

\* what process() leaves alone
outsidePipeline == <<mapperVars, rulesVars, validateVars, laterVars>>

-----------------------------------------------------------------------------
(* Python values *)

NoneV == [t |-> "none"]

StrV(s) == [t |-> "str", s |-> s]

BoolV(b) == [t |-> "bool", b |-> b]

IsNone(v) == v.t = "none"

IsStr(v) == v.t = "str"

IsBool(v) == v.t = "bool"

-----------------------------------------------------------------------------
(* Python str operations on sequences of characters *)

Whitespace == {" ", "\t", "\n"}

UpperToLower ==
    "A" :> "a" @@ "B" :> "b" @@ "C" :> "c" @@ "D" :> "d" @@ "E" :> "e" @@
    "F" :> "f" @@ "G" :> "g" @@ "H" :> "h" @@ "I" :> "i" @@ "J" :> "j" @@
    "K" :> "k" @@ "L" :> "l" @@ "M" :> "m" @@ "N" :> "n" @@ "O" :> "o" @@
    "P" :> "p" @@ "Q" :> "q" @@ "R" :> "r" @@ "S" :> "s" @@ "T" :> "t" @@
    "U" :> "u" @@ "V" :> "v" @@ "W" :> "w" @@ "X" :> "x" @@ "Y" :> "y" @@
    "Z" :> "z"

LowerChar(c) == IF c \in DOMAIN UpperToLower THEN UpperToLower[c] ELSE c

\* str.lower()
Lower(s) == [i \in 1..Len(s) |-> LowerChar(s[i])]

RECURSIVE LStrip(_)
LStrip(s) ==
    IF s # <<>> /\ Head(s) \in Whitespace THEN LStrip(Tail(s)) ELSE s

RECURSIVE RStrip(_)
RStrip(s) ==
    IF s # <<>> /\ s[Len(s)] \in Whitespace
    THEN RStrip(SubSeq(s, 1, Len(s) - 1))
    ELSE s

\* str.strip()
Strip(s) == RStrip(LStrip(s))

\* s.startswith(p)
StartsWith(s, p) == Len(s) >= Len(p) /\ SubSeq(s, 1, Len(p)) = p

\* s.endswith(p)
EndsWith(s, p) ==
    Len(s) >= Len(p) /\ SubSeq(s, Len(s) - Len(p) + 1, Len(s)) = p

\* p in s
Contains(s, p) ==
    \E i \in 0..(Len(s) - Len(p)) : SubSeq(s, i + 1, i + Len(p)) = p

\* s.rfind(c) for a single character, 1-based; 0 when absent
RFind(s, c) ==
    IF \E i \in 1..Len(s) : s[i] = c
    THEN CHOOSE i \in 1..Len(s) :
            s[i] = c /\ \A j \in (i + 1)..Len(s) : s[j] # c
    ELSE 0

-----------------------------------------------------------------------------
(* Python dict with insertion order: a sequence of <<key, value>> pairs *)

EmptyDict == <<>>

Keys(d) == {d[i][1] : i \in 1..Len(d)}

HasKey(d, k) == \E i \in 1..Len(d) : d[i][1] = k

\* d[k]
Get(d, k) == d[CHOOSE i \in 1..Len(d) : d[i][1] = k][2]

\* d[k] = v
Put(d, k, v) ==
    IF HasKey(d, k)
    THEN [i \in 1..Len(d) |-> IF d[i][1] = k THEN <<k, v>> ELSE d[i]]
    ELSE Append(d, <<k, v>>)

-----------------------------------------------------------------------------
(* acord_detector.py *)

ACORD_FIELD_PATTERNS ==
    << <<"N","a","m","e","d","I","n","s","u","r","e","d">>,
       <<"P","r","o","d","u","c","e","r","_">>,
       <<"P","o","l","i","c","y","_","G","e","n","e","r","a","l","L","i","a","b","i","l","i","t","y">>,
       <<"P","o","l","i","c","y","_","A","u","t","o","m","o","b","i","l","e","L","i","a","b","i","l","i","t","y">>,
       <<"P","o","l","i","c","y","_","W","o","r","k","e","r","s","C","o","m","p","e","n","s","a","t","i","o","n">>,
       <<"P","o","l","i","c","y","_","E","x","c","e","s","s","L","i","a","b","i","l","i","t","y">>,
       <<"I","n","s","u","r","e","r","_","F","u","l","l","N","a","m","e">>,
       <<"I","n","s","u","r","e","r","_","N","A","I","C","C","o","d","e">>,
       <<"C","e","r","t","i","f","i","c","a","t","e","H","o","l","d","e","r">>,
       <<"V","e","h","i","c","l","e","_">>,
       <<"W","o","r","k","e","r","s","C","o","m","p","e","n","s","a","t","i","o","n">>,
       <<"G","e","n","e","r","a","l","A","g","g","r","e","g","a","t","e","L","i","m","i","t","A","m","o","u","n","t">>,
       <<"E","a","c","h","O","c","c","u","r","r","e","n","c","e","L","i","m","i","t","A","m","o","u","n","t">> >>

acord_25_indicators ==
    << <<"c","e","r","t","i","f","i","c","a","t","e","h","o","l","d","e","r">>,
       <<"g","e","n","e","r","a","l","l","i","a","b","i","l","i","t","y">>,
       <<"a","u","t","o","m","o","b","i","l","e","l","i","a","b","i","l","i","t","y">>,
       <<"w","o","r","k","e","r","s","c","o","m","p","e","n","s","a","t","i","o","n">>,
       <<"e","x","c","e","s","s","l","i","a","b","i","l","i","t","y">>,
       <<"n","a","m","e","d","i","n","s","u","r","e","d">> >>

\* the names of the form's fields, in the order of the field dictionary
FieldNamesOf(doc) == [i \in 1..Len(doc.fields) |-> doc.fields[i].name]

\* the loops without the break: a pattern is appended once for every
\* field name it occurs in
MatchedPatternsNoBreak(field_names) ==
    LET hits(k) == { i \in 1..Len(field_names) :
                        Contains(Lower(field_names[i]),
                                 Lower(ACORD_FIELD_PATTERNS[k])) }
        Rec[k \in 1..(Len(ACORD_FIELD_PATTERNS) + 1)] ==
            IF k > Len(ACORD_FIELD_PATTERNS) THEN <<>>
            ELSE [i \in 1..Cardinality(hits(k)) |-> ACORD_FIELD_PATTERNS[k]]
                    \o Rec[k + 1]
    IN  Rec[1]

\* the patterns that occur in one field name and no more
MatchedInOneFieldOnly(field_names) ==
    SelectSeq(ACORD_FIELD_PATTERNS,
              LAMBDA p : Cardinality({ i \in 1..Len(field_names) :
                            Contains(Lower(field_names[i]), Lower(p)) }) = 1)

\* the patterns of ACORD_FIELD_PATTERNS that occur in some field name, in
\* list order: the outer loop appends a pattern at most once (break)
MatchedPatterns(field_names) ==
    SelectSeq(ACORD_FIELD_PATTERNS,
              LAMBDA p : \E i \in 1..Len(field_names) :
                            Contains(Lower(field_names[i]), Lower(p)))

_detect_acord_form_type(field_names) ==
    LET acord_25_matches ==
            Cardinality({k \in 1..Len(acord_25_indicators) :
                \E i \in 1..Len(field_names) :
                    Contains(Lower(field_names[i]), acord_25_indicators[k])})
    IN  IF acord_25_matches >= 4
        THEN "ACORD 25 - Certificate of Liability Insurance"
        ELSE "ACORD Form (type undetermined)"

NotFillable(form_type) ==
    [is_fillable |-> FALSE, is_acord |-> FALSE, field_count |-> 0,
     acord_pattern_matches |-> 0, confidence |-> "none",
     detected_form_type |-> form_type]

\* a detector without the check for a PDF that has no form fields
DetectWithoutFieldCheck(doc) ==
    IF ~doc.exists THEN NotFillable("File not found")
    ELSE IF ~doc.readable THEN NotFillable("Error reading PDF")
    ELSE [is_fillable |-> TRUE,
          is_acord |-> Len(MatchedPatterns(FieldNamesOf(doc))) >= 3,
          field_count |-> Len(doc.fields),
          acord_pattern_matches |-> Len(MatchedPatterns(FieldNamesOf(doc))),
          confidence |-> "none",
          detected_form_type |-> "Not an ACORD form"]

detect_acord_form(doc) ==
    IF ~doc.exists THEN NotFillable("File not found")
    ELSE IF ~doc.readable THEN NotFillable("Error reading PDF")
    ELSE IF Len(doc.fields) = 0 THEN NotFillable("Not a fillable PDF")
    ELSE
        LET field_names == FieldNamesOf(doc)
            pattern_matches == Len(MatchedPatterns(field_names))
        IN  [is_fillable |-> TRUE,
             is_acord |-> pattern_matches >= 3,
             field_count |-> Len(doc.fields),
             acord_pattern_matches |-> pattern_matches,
             confidence |->
                 IF pattern_matches >= 8 THEN "high"
                 ELSE IF pattern_matches >= 5 THEN "medium"
                 ELSE IF pattern_matches >= 3 THEN "low"
                 ELSE "none",
             detected_form_type |->
                 IF pattern_matches >= 5
                 THEN _detect_acord_form_type(field_names)
                 ELSE IF pattern_matches >= 3 THEN "Possible ACORD form"
                 ELSE "Not an ACORD form"]

-----------------------------------------------------------------------------
(* pypdf_extractor.py *)

PREFIX_F_P1 == <<"F","[","0","]",".","P","1","[","0","]",".">>

PREFIX_F == <<"F","[","0","]",".">>

INDEX_0 == <<"[","0","]">>

_clean_field_name(field_name) ==
    LET cleaned ==
            IF StartsWith(field_name, PREFIX_F_P1)
            THEN SubSeq(field_name, 12, Len(field_name))
            ELSE IF StartsWith(field_name, PREFIX_F)
            THEN SubSeq(field_name, 6, Len(field_name))
            ELSE field_name
    IN  IF EndsWith(cleaned, INDEX_0)
        THEN SubSeq(cleaned, 1, Len(cleaned) - 3)
        ELSE cleaned

true_values ==
    { <<"/","1">>, <<"/","Y","e","s">>, <<"/","O","n">>, <<"1">>,
      <<"Y","e","s">>, <<"O","n">>, <<"t","r","u","e">>, <<"T","r","u","e">> }

false_values ==
    { <<"/","0">>, <<"/","N","o">>, <<"/","O","f","f">>, <<"0">>,
      <<"N","o">>, <<"O","f","f">>, <<"f","a","l","s","e">>,
      <<"F","a","l","s","e">> }

_is_checkbox_checked(value, appearance_state) ==
    LET raw_value == IF ~IsNone(value) THEN value ELSE appearance_state
    IN  IF IsNone(raw_value) THEN FALSE
        ELSE
            LET value_str == Strip(raw_value.s)
            IN  IF value_str \in true_values THEN TRUE
                ELSE IF value_str \in false_values THEN FALSE
                ELSE value_str \notin
                        { <<>>, <<"N","o","n","e">>, <<"n","u","l","l">> }

ExtractionFailed(msg) ==
    [success |-> FALSE, field_count |-> 0, fields |-> EmptyDict,
     checkboxes |-> EmptyDict, error |-> msg]

\* the loop over all_fields.items(): acc = <<text_fields, checkboxes>>
RECURSIVE ExtractLoop(_, _, _)
ExtractLoop(all_fields, i, acc) ==
    IF i > Len(all_fields) THEN acc
    ELSE
        LET f == all_fields[i]
            clean_name == _clean_field_name(f.name)
        IN  IF f.ft = "/Btn"
            THEN ExtractLoop(all_fields, i + 1,
                    << acc[1],
                       Put(acc[2], clean_name,
                           BoolV(_is_checkbox_checked(f.v, f.as))) >>)
            ELSE
                LET value ==
                        IF IsNone(f.v) THEN NoneV
                        ELSE IF Strip(f.v.s) # <<>> THEN StrV(Strip(f.v.s))
                        ELSE NoneV
                IN  ExtractLoop(all_fields, i + 1,
                        << Put(acc[1], clean_name, value), acc[2] >>)

\* read_ok: the outcome of opening and parsing the file at this call
extract_form_fields(doc, read_ok) ==
    IF ~doc.exists THEN ExtractionFailed("PDF file not found")
    ELSE IF ~doc.readable \/ ~read_ok THEN ExtractionFailed("read error")
    ELSE IF Len(doc.fields) = 0
    THEN ExtractionFailed(
            "PDF has no form fields or fields could not be extracted")
    ELSE
        LET acc == ExtractLoop(doc.fields, 1, <<EmptyDict, EmptyDict>>)
        IN  [success |-> TRUE,
             field_count |-> Len(acc[1]) + Len(acc[2]),
             fields |-> acc[1],
             checkboxes |-> acc[2],
             raw_field_names |-> FieldNamesOf(doc)]

YES == <<"Y","e","s">>

NO == <<"N","o">>

RECURSIVE AddTextFields(_, _, _)
AddTextFields(fields, i, combined) ==
    IF i > Len(fields) THEN combined
    ELSE AddTextFields(fields, i + 1,
            IF ~IsNone(fields[i][2])
            THEN Put(combined, fields[i][1], fields[i][2])
            ELSE combined)

RECURSIVE AddCheckboxes(_, _, _)
AddCheckboxes(checkboxes, i, combined) ==
    IF i > Len(checkboxes) THEN combined
    ELSE AddCheckboxes(checkboxes, i + 1,
            Put(combined, checkboxes[i][1],
                StrV(IF checkboxes[i][2].b THEN YES ELSE NO)))

_prepare_for_openai(extraction_result) ==
    IF ~extraction_result.success
    THEN [success |-> FALSE, error |-> extraction_result.error,
          data |-> EmptyDict]
    ELSE
        LET combined ==
                AddCheckboxes(extraction_result.checkboxes, 1,
                    AddTextFields(extraction_result.fields, 1, EmptyDict))
        IN  [success |-> TRUE, field_count |-> Len(combined),
             data |-> combined]

extract_for_openai_from_result(extraction_result) ==
    _prepare_for_openai(extraction_result)

-----------------------------------------------------------------------------
(* direct_mapper.py *)
(* A nested dict of the coverage data is DictV(f), f a function from keys  *)
(* to values.  A schema path "a.b.c" is the sequence <<"a","b","c">> of    *)
(* the segments that path.split('.') yields.                               *)

DictV(f) == [t |-> "dict", d |-> f]

IsDict(v) == v.t = "dict"

\* a JSON array
ListV(l) == [t |-> "list", l |-> l]

IsList(v) == v.t = "list"

\* {}
EmptyPyDict == DictV([x \in {} |-> NoneV])

\* dot: the prefix is written with a trailing "." in the source
coverage_prefixes ==
    << [seg |-> "issue_date", dot |-> FALSE],
       [seg |-> "certificate_number", dot |-> FALSE],
       [seg |-> "certificate_holder", dot |-> FALSE],
       [seg |-> "general_liability", dot |-> TRUE],
       [seg |-> "auto_liability", dot |-> TRUE],
       [seg |-> "umbrella", dot |-> TRUE],
       [seg |-> "workers_comp", dot |-> TRUE],
       [seg |-> "other", dot |-> TRUE],
       [seg |-> "remarks", dot |-> FALSE],
       [seg |-> "authorized_representative", dot |-> FALSE] >>

\* schema_path.startswith(prefix) or schema_path == prefix.rstrip('.').
\* No segment used in a mapping table of the model extends a prefix by
\* further characters, so startswith on the string is decided by the first
\* segment.
_is_coverage_path(schema_path) ==
    \E i \in 1..Len(coverage_prefixes) :
        LET p == coverage_prefixes[i]
        IN  IF p.dot
            THEN \/ schema_path[1] = p.seg /\ Len(schema_path) >= 2
                 \/ schema_path = <<p.seg>>
            ELSE schema_path[1] = p.seg

_init_coverage_structure ==
    DictV([
        issue_date |-> NoneV,
        certificate_number |-> NoneV,
        certificate_holder |-> DictV([
                name |-> NoneV,
                address |-> NoneV]),
        general_liability |-> DictV([
                insurer_letter |-> NoneV,
                policy_number |-> NoneV,
                effective_date |-> NoneV,
                expiration_date |-> NoneV,
                general_liability_coverage_indicator |-> NoneV,
                claims_made |-> NoneV,
                occurrence |-> NoneV,
                custom_option_1 |-> NoneV,
                custom_option_1_value |-> NoneV,
                custom_option_2 |-> NoneV,
                custom_option_2_value |-> NoneV,
                general_aggregate_limit_applies_per_policy |-> NoneV,
                general_aggregate_limit_applies_per_project |-> NoneV,
                general_aggregate_limit_applies_per_location |-> NoneV,
                general_aggregate_limit_applies_per_other |-> NoneV,
                general_aggregate_limit_applies_per_other_value |-> NoneV,
                each_occurrence |-> NoneV,
                damage_to_rented_premises |-> NoneV,
                medical_expense |-> NoneV,
                personal_adv_injury |-> NoneV,
                general_aggregate |-> NoneV,
                products_comp_op_agg |-> NoneV,
                additional_insured |-> NoneV,
                subrogation_waived |-> NoneV]),
        auto_liability |-> DictV([
                insurer_letter |-> NoneV,
                policy_number |-> NoneV,
                effective_date |-> NoneV,
                expiration_date |-> NoneV,
                any_auto |-> NoneV,
                owned_autos_only |-> NoneV,
                hired_autos_only |-> NoneV,
                scheduled_autos_only |-> NoneV,
                non_owned_autos_only |-> NoneV,
                custom_option_1 |-> NoneV,
                custom_option_1_value |-> NoneV,
                custom_option_2 |-> NoneV,
                custom_option_2_value |-> NoneV,
                combined_single_limit |-> NoneV,
                bodily_injury_per_person |-> NoneV,
                bodily_injury_per_accident |-> NoneV,
                property_damage |-> NoneV,
                additional_insured |-> NoneV,
                subrogation_waived |-> NoneV]),
        umbrella |-> DictV([
                insurer_letter |-> NoneV,
                policy_number |-> NoneV,
                effective_date |-> NoneV,
                expiration_date |-> NoneV,
                umbrella_liab |-> NoneV,
                excess_liab |-> NoneV,
                occurrence |-> NoneV,
                claims_made |-> NoneV,
                deductible |-> NoneV,
                retention |-> NoneV,
                retention_amount |-> NoneV,
                each_occurrence |-> NoneV,
                aggregate |-> NoneV,
                additional_insured |-> NoneV,
                subrogation_waived |-> NoneV]),
        workers_comp |-> DictV([
                insurer_letter |-> NoneV,
                policy_number |-> NoneV,
                effective_date |-> NoneV,
                expiration_date |-> NoneV,
                per_statute |-> NoneV,
                other |-> NoneV,
                per_statute_other_limit |-> NoneV,
                each_accident |-> NoneV,
                disease_each_employee |-> NoneV,
                disease_policy_limit |-> NoneV,
                any_excluded |-> NoneV,
                additional_insured |-> NoneV,
                subrogation_waived |-> NoneV]),
        other |-> DictV([
                insurer_letter |-> NoneV,
                type_of_insurance |-> NoneV,
                addl |-> NoneV,
                subr |-> NoneV,
                policy_number |-> NoneV,
                effective_date |-> NoneV,
                expiration_date |-> NoneV,
                description |-> NoneV,
                first_policy_option |-> NoneV,
                first_policy_limit |-> NoneV,
                second_policy_option |-> NoneV,
                second_policy_limit |-> NoneV,
                third_policy_option |-> NoneV,
                third_policy_limit |-> NoneV]),
        remarks |-> NoneV,
        authorized_representative |-> NoneV])

\* str(v) of a value inside an f-string
PyStr(v) ==
    IF IsStr(v) THEN v.s
    ELSE IF IsBool(v)
    THEN (IF v.b THEN <<"T","r","u","e">> ELSE <<"F","a","l","s","e">>)
    ELSE IF IsNone(v) THEN <<"N","o","n","e">>
    ELSE <<"{", "}">>

\* bool(v)
Truthy(v) ==
    IF IsNone(v) THEN FALSE
    ELSE IF IsBool(v) THEN v.b
    ELSE IF IsStr(v) THEN v.s # <<>>
    ELSE IF IsList(v) THEN v.l # <<>>
    ELSE DOMAIN v.d # {}

\* d with d[k] = v, where d is the function of a nested dict
Assign(d, k, v) == [x \in (DOMAIN d) \cup {k} |-> IF x = k THEN v ELSE d[x]]

\* the walk of _set_nested_value from `current` along `keys`; `value` is
\* already stripped
RECURSIVE SetAlong(_, _, _)
SetAlong(current, keys, value) ==
    IF Len(keys) = 1
    THEN
        LET final_key == keys[1]
        IN  IF /\ final_key = "address"
               /\ final_key \in DOMAIN current
               /\ Truthy(current[final_key])
            THEN
                IF Truthy(value) /\ Strip(PyStr(value)) # <<>>
                THEN Assign(current, final_key,
                        StrV(PyStr(current[final_key]) \o <<",", " ">>
                             \o PyStr(value)))
                ELSE current
            ELSE Assign(current, final_key, value)
    ELSE
        LET key == keys[1]
            inner ==
                IF key \notin DOMAIN current \/ ~IsDict(current[key])
                THEN [x \in {} |-> NoneV]
                ELSE current[key].d
        IN  Assign(current, key, DictV(SetAlong(inner, Tail(keys), value)))

_set_nested_value(data, path, value) ==
    DictV(SetAlong(data.d, path,
                   IF IsStr(value) THEN StrV(Strip(value.s)) ELSE value))

checkbox_fields ==
    { "claims_made", "occurrence", "custom_option_1", "custom_option_2",
      "general_aggregate_limit_applies_per_policy",
      "general_aggregate_limit_applies_per_project",
      "general_aggregate_limit_applies_per_location",
      "general_aggregate_limit_applies_per_other",
      "additional_insured", "subrogation_waived",
      "any_auto", "owned_autos_only", "hired_autos_only",
      "scheduled_autos_only", "non_owned_autos_only",
      "umbrella_liab", "excess_liab", "deductible", "retention",
      "per_statute", "other", "any_excluded",
      "addl", "subr" }

normalize_yes ==
    { <<"y","e","s">>, <<"y">>, <<"t","r","u","e">>, <<"1">>, <<"/","1">>,
      <<"/","y","e","s">>, <<"x">>, <<"c","h","e","c","k","e","d">>,
      <<"o","n">> }

normalize_no ==
    { <<"n","o">>, <<"n">>, <<"f","a","l","s","e">>, <<"0">>, <<"/","0">>,
      <<"/","n","o">>, <<"o","f","f">>,
      <<"u","n","c","h","e","c","k","e","d">> }

normalize_value(val) ==
    IF IsNone(val) THEN NoneV
    ELSE IF IsBool(val) THEN StrV(IF val.b THEN YES ELSE NO)
    ELSE IF IsStr(val)
    THEN LET val_lower == Strip(Lower(val.s))
         IN  IF val_lower \in normalize_yes THEN StrV(YES)
             ELSE IF val_lower \in normalize_no THEN StrV(NO)
             ELSE val
    ELSE val

RECURSIVE process_dict(_)
process_dict(d) ==
    [key \in DOMAIN d |->
        IF IsDict(d[key]) THEN DictV(process_dict(d[key].d))
        ELSE IF key \in checkbox_fields THEN normalize_value(d[key])
        ELSE d[key]]

_normalize_checkboxes(data) == DictV(process_dict(data.d))

CLOSE_BRACKET == "]"

OPEN_BRACKET == "["

\* the key under which direct_map files a raw key
NormalizeKey(raw_key) ==
    IF EndsWith(raw_key, INDEX_0)
    THEN SubSeq(raw_key, 1, Len(raw_key) - 3)
    ELSE IF EndsWith(raw_key, <<CLOSE_BRACKET>>)
            /\ RFind(raw_key, OPEN_BRACKET) > 0
    THEN SubSeq(raw_key, 1, RFind(raw_key, OPEN_BRACKET) - 1)
    ELSE raw_key

RECURSIVE NormalizeFields(_, _, _)
NormalizeFields(raw_fields, i, normalized_fields) ==
    IF i > Len(raw_fields) THEN normalized_fields
    ELSE NormalizeFields(raw_fields, i + 1,
            Put(normalized_fields, NormalizeKey(raw_fields[i][1]),
                raw_fields[i][2]))

\* the loop over self.field_mappings.items():
\* acc = [coverage_data, unmapped_fields, mapped_keys]
RECURSIVE ApplyMappings(_, _, _, _)
ApplyMappings(mappings, normalized_fields, i, acc) ==
    IF i > Len(mappings) THEN acc
    ELSE
        LET pdf_field == mappings[i][1]
            schema_path == mappings[i][2]
        IN  IF ~HasKey(normalized_fields, pdf_field)
            THEN ApplyMappings(mappings, normalized_fields, i + 1, acc)
            ELSE
                LET value == Get(normalized_fields, pdf_field)
                IN  ApplyMappings(mappings, normalized_fields, i + 1,
                        IF _is_coverage_path(schema_path)
                        THEN [acc EXCEPT
                                !.coverage_data =
                                    _set_nested_value(@, schema_path, value),
                                !.mapped_keys = @ \cup {pdf_field}]
                        ELSE [acc EXCEPT
                                !.unmapped_fields = Put(@, pdf_field, value),
                                !.mapped_keys = @ \cup {pdf_field}])

RECURSIVE AddTrulyUnmapped(_, _, _, _)
AddTrulyUnmapped(normalized_fields, mapped_keys, i, unmapped_fields) ==
    IF i > Len(normalized_fields) THEN unmapped_fields
    ELSE AddTrulyUnmapped(normalized_fields, mapped_keys, i + 1,
            IF /\ normalized_fields[i][1] \notin mapped_keys
               /\ ~IsNone(normalized_fields[i][2])
            THEN Put(unmapped_fields, normalized_fields[i][1],
                     normalized_fields[i][2])
            ELSE unmapped_fields)

\* returns [coverage_data, unmapped_fields]
direct_map(mappings, raw_fields) ==
    IF Len(raw_fields) = 0
    THEN [coverage_data |-> DictV([x \in {} |-> NoneV]),
          unmapped_fields |-> EmptyDict]
    ELSE
        LET normalized_fields == NormalizeFields(raw_fields, 1, EmptyDict)
            acc == ApplyMappings(mappings, normalized_fields, 1,
                      [coverage_data |-> _init_coverage_structure,
                       unmapped_fields |-> EmptyDict,
                       mapped_keys |-> {}])
        IN  [coverage_data |-> _normalize_checkboxes(acc.coverage_data),
             unmapped_fields |->
                 AddTrulyUnmapped(normalized_fields, acc.mapped_keys, 1,
                                  acc.unmapped_fields)]

-----------------------------------------------------------------------------
(* acord_formatter.py *)

\* d.get(k) on a dict
PyGet(d, k) == IF k \in DOMAIN d.d THEN d.d[k] ELSE NoneV

format_checkbox_yes ==
    { <<"y","e","s">>, <<"y">>, <<"t","r","u","e">>, <<"1">>, <<"/","1">>,
      <<"/","y","e","s">>, <<"x">>, <<"c","h","e","c","k","e","d">> }

\* format_checkbox comparing value.strip() without value.lower()
FormatCheckboxCaseSensitive(value) ==
    IF IsNone(value) THEN StrV(NO)
    ELSE IF IsBool(value) THEN StrV(IF value.b THEN YES ELSE NO)
    ELSE IF IsStr(value) /\ Strip(value.s) \in format_checkbox_yes
    THEN StrV(YES)
    ELSE StrV(NO)

format_checkbox(value) ==
    IF IsNone(value) THEN StrV(NO)
    ELSE IF IsBool(value) THEN StrV(IF value.b THEN YES ELSE NO)
    ELSE IF IsStr(value) /\ Strip(Lower(value.s)) \in format_checkbox_yes
    THEN StrV(YES)
    ELSE StrV(NO)

format_limit_boolean_like ==
    { <<"y","e","s">>, <<"n","o">>, <<"t","r","u","e">>,
      <<"f","a","l","s","e">>, <<"y">>, <<"n">> }

format_limit(value) ==
    IF IsNone(value) THEN StrV(<<>>)
    ELSE IF IsStr(value) /\ Strip(Lower(value.s)) \in format_limit_boolean_like
    THEN StrV(<<>>)
    ELSE StrV(PyStr(value))

Digits == {"0", "1", "2", "3", "4", "5", "6", "7", "8", "9"}

\* any(c.isdigit() for c in s)
HasDigit(s) == \E i \in 1..Len(s) : s[i] \in Digits

_get_name_only(data) ==
    IF IsNone(data) THEN StrV(<<>>)
    ELSE IF IsStr(data)
    THEN (IF HasDigit(data.s) THEN StrV(<<>>) ELSE data)
    ELSE IF IsDict(data)
    THEN LET name == PyGet(data, "name")
         IN  IF /\ Truthy(name)
                /\ Lower(name.s) # <<"n","u","l","l">>
                /\ Strip(name.s) # <<>>
             THEN name
             ELSE StrV(<<>>)
    ELSE StrV(<<>>)

_get_address_only(data) ==
    IF IsNone(data) THEN StrV(<<>>)
    ELSE IF IsStr(data)
    THEN (IF HasDigit(data.s) THEN data ELSE StrV(<<>>))
    ELSE IF IsDict(data)
    THEN (IF Truthy(PyGet(data, "address"))
          THEN PyGet(data, "address")
          ELSE StrV(<<>>))
    ELSE StrV(<<>>)

\* organized_data.get(name, {}) or {}
Section(organized_data, name) ==
    IF Truthy(PyGet(organized_data, name))
    THEN PyGet(organized_data, name)
    ELSE DictV([x \in {} |-> NoneV])

\* name.lower() on a truthy name that is not a str raises AttributeError
NameRaises(data) ==
    /\ IsDict(data)
    /\ Truthy(PyGet(data, "name"))
    /\ ~IsStr(PyGet(data, "name"))

\* format_for_tabs raises AttributeError: .get on a value that is no dict
FormatRaises(organized_data) ==
    \/ ~IsDict(organized_data)
    \/ \E name \in {"general_liability", "auto_liability", "umbrella",
                    "workers_comp", "other"} :
            ~IsDict(Section(organized_data, name))
    \/ \E name \in {"certificate_holder", "insured", "producer"} :
            NameRaises(Section(organized_data, name))

format_for_tabs(organized_data) ==
    LET gl == Section(organized_data, "general_liability")
        auto == Section(organized_data, "auto_liability")
        umbrella == Section(organized_data, "umbrella")
        wc == Section(organized_data, "workers_comp")
        cert_holder == Section(organized_data, "certificate_holder")
        insured == Section(organized_data, "insured")
        producer == Section(organized_data, "producer")
        insurers == IF Truthy(PyGet(organized_data, "insurers"))
                    THEN PyGet(organized_data, "insurers")
                    ELSE ListV(<<>>)
        other == Section(organized_data, "other")
    IN  DictV([
            information |-> DictV([
                certificate_date |-> PyGet(organized_data, "issue_date"),
                description_of_operations |-> PyGet(organized_data, "remarks"),
                certificate_holder |-> _get_name_only(cert_holder)]),
            general_liability |-> DictV([
                policy_information |-> DictV([
                    insurer_letter |-> PyGet(gl, "insurer_letter"),
                    policy_number |-> PyGet(gl, "policy_number"),
                    effective_date |-> PyGet(gl, "effective_date"),
                    expiration_date |-> PyGet(gl, "expiration_date"),
                    additional_insured |-> format_checkbox(PyGet(gl, "additional_insured")),
                    subrogation_waived |-> format_checkbox(PyGet(gl, "subrogation_waived"))]),
                policy_options |-> DictV([
                    claims_made |-> format_checkbox(PyGet(gl, "claims_made")),
                    occurrence |-> format_checkbox(PyGet(gl, "occurrence")),
                    custom_option_1 |-> format_checkbox(PyGet(gl, "custom_option_1")),
                    custom_option_1_value |-> PyGet(gl, "custom_option_1_value"),
                    custom_option_2 |-> format_checkbox(PyGet(gl, "custom_option_2")),
                    custom_option_2_value |-> PyGet(gl, "custom_option_2_value"),
                    aggregate_applies_policy |-> format_checkbox(PyGet(gl, "general_aggregate_limit_applies_per_policy")),
                    aggregate_applies_project |-> format_checkbox(PyGet(gl, "general_aggregate_limit_applies_per_project")),
                    aggregate_applies_location |-> format_checkbox(PyGet(gl, "general_aggregate_limit_applies_per_location")),
                    aggregate_applies_other |-> format_checkbox(PyGet(gl, "general_aggregate_limit_applies_per_other")),
                    aggregate_applies_other_value |-> PyGet(gl, "general_aggregate_limit_applies_per_other_value")]),
                policy_limits |-> DictV([
                    each_occurrence |-> format_limit(PyGet(gl, "each_occurrence")),
                    damage_to_rented_premises |-> format_limit(PyGet(gl, "damage_to_rented_premises")),
                    med_exp |-> format_limit(PyGet(gl, "medical_expense")),
                    personal_adv_injury |-> format_limit(PyGet(gl, "personal_adv_injury")),
                    general_aggregate |-> format_limit(PyGet(gl, "general_aggregate")),
                    products_comp_op_agg |-> format_limit(PyGet(gl, "products_comp_op_agg"))])]),
            automobile_liability |-> DictV([
                policy_information |-> DictV([
                    insurer_letter |-> PyGet(auto, "insurer_letter"),
                    policy_number |-> PyGet(auto, "policy_number"),
                    effective_date |-> PyGet(auto, "effective_date"),
                    expiration_date |-> PyGet(auto, "expiration_date"),
                    additional_insured |-> format_checkbox(PyGet(auto, "additional_insured")),
                    subrogation_waived |-> format_checkbox(PyGet(auto, "subrogation_waived"))]),
                policy_options |-> DictV([
                    any_auto |-> format_checkbox(PyGet(auto, "any_auto")),
                    owned_autos_only |-> format_checkbox(PyGet(auto, "owned_autos_only")),
                    hired_autos_only |-> format_checkbox(PyGet(auto, "hired_autos_only")),
                    scheduled_autos_only |-> format_checkbox(PyGet(auto, "scheduled_autos_only")),
                    non_owned_autos_only |-> format_checkbox(PyGet(auto, "non_owned_autos_only")),
                    custom_option_1 |-> format_checkbox(PyGet(auto, "custom_option_1")),
                    custom_option_1_value |-> PyGet(auto, "custom_option_1_value"),
                    custom_option_2 |-> format_checkbox(PyGet(auto, "custom_option_2")),
                    custom_option_2_value |-> PyGet(auto, "custom_option_2_value")]),
                policy_limits |-> DictV([
                    combined_single_limit |-> format_limit(PyGet(auto, "combined_single_limit")),
                    combined_single_limit_ea_accident |-> format_limit(PyGet(auto, "combined_single_limit")),
                    bodily_injury_person |-> format_limit(PyGet(auto, "bodily_injury_per_person")),
                    bodily_injury_accident |-> format_limit(PyGet(auto, "bodily_injury_per_accident")),
                    property_damage |-> format_limit(PyGet(auto, "property_damage"))])]),
            umbrella_liability |-> DictV([
                policy_information |-> DictV([
                    insurer_letter |-> PyGet(umbrella, "insurer_letter"),
                    policy_number |-> PyGet(umbrella, "policy_number"),
                    effective_date |-> PyGet(umbrella, "effective_date"),
                    expiration_date |-> PyGet(umbrella, "expiration_date"),
                    additional_insured |-> format_checkbox(PyGet(umbrella, "additional_insured")),
                    subrogation_waived |-> format_checkbox(PyGet(umbrella, "subrogation_waived"))]),
                policy_options |-> DictV([
                    umbrella_liability |-> format_checkbox(PyGet(umbrella, "umbrella_liab")),
                    excess_liability |-> format_checkbox(PyGet(umbrella, "excess_liab")),
                    occurrence |-> format_checkbox(PyGet(umbrella, "occurrence")),
                    claims_made |-> format_checkbox(PyGet(umbrella, "claims_made")),
                    deductible |-> format_checkbox(PyGet(umbrella, "deductible")),
                    retention_checkbox |-> format_checkbox(PyGet(umbrella, "retention")),
                    retention |-> format_limit(PyGet(umbrella, "retention_amount"))]),
                policy_limits |-> DictV([
                    each_occurrence |-> format_limit(PyGet(umbrella, "each_occurrence")),
                    aggregate |-> format_limit(PyGet(umbrella, "aggregate"))])]),
            workers_comp |-> DictV([
                policy_information |-> DictV([
                    insurer_letter |-> PyGet(wc, "insurer_letter"),
                    policy_number |-> PyGet(wc, "policy_number"),
                    effective_date |-> PyGet(wc, "effective_date"),
                    expiration_date |-> PyGet(wc, "expiration_date"),
                    additional_insured |-> format_checkbox(PyGet(wc, "additional_insured")),
                    subrogation_waived |-> format_checkbox(PyGet(wc, "subrogation_waived"))]),
                policy_options |-> DictV([
                    per_statute |-> format_checkbox(PyGet(wc, "per_statute")),
                    other |-> format_checkbox(PyGet(wc, "other")),
                    any_officers_excluded |-> format_checkbox(PyGet(wc, "any_excluded"))]),
                policy_limits |-> DictV([
                    per_statute_other_limit |-> format_limit(PyGet(wc, "per_statute_other_limit")),
                    each_accident |-> format_limit(PyGet(wc, "each_accident")),
                    each_employee |-> format_limit(PyGet(wc, "disease_each_employee")),
                    disease_policy_limit |-> format_limit(PyGet(wc, "disease_policy_limit"))])]),
            other_coverage |-> DictV([
                policy_information |-> DictV([
                    insurer_letter |-> PyGet(other, "insurer_letter"),
                    type_of_insurance |-> (IF Truthy(PyGet(other, "type_of_insurance")) THEN PyGet(other, "type_of_insurance") ELSE StrV(<<"O","t","h","e","r">>)),
                    policy_number |-> PyGet(other, "policy_number"),
                    effective_date |-> PyGet(other, "effective_date"),
                    expiration_date |-> PyGet(other, "expiration_date"),
                    additional_insured |-> format_checkbox(PyGet(other, "addl")),
                    subrogation_waived |-> format_checkbox(PyGet(other, "subr")),
                    description |-> PyGet(other, "description")]),
                policy_limits |-> ListV(<<
                    DictV([
                        policy_option |-> PyGet(other, "first_policy_option"),
                        policy_limit |-> format_limit(PyGet(other, "first_policy_limit"))]),
                    DictV([
                        policy_option |-> PyGet(other, "second_policy_option"),
                        policy_limit |-> format_limit(PyGet(other, "second_policy_limit"))]),
                    DictV([
                        policy_option |-> PyGet(other, "third_policy_option"),
                        policy_limit |-> format_limit(PyGet(other, "third_policy_limit"))])>>)]),
            notes |-> (IF Truthy(PyGet(organized_data, "remarks")) THEN PyGet(organized_data, "remarks") ELSE NoneV),
            other_data |-> DictV([
                insured |-> DictV([
                    name |-> _get_name_only(insured),
                    address |-> _get_address_only(insured)]),
                producer |-> DictV([
                    name |-> _get_name_only(producer),
                    address |-> _get_address_only(producer),
                    contact |-> (IF IsDict(producer) THEN PyGet(producer, "contact") ELSE NoneV),
                    phone |-> (IF IsDict(producer) THEN PyGet(producer, "phone") ELSE NoneV),
                    fax |-> (IF IsDict(producer) THEN PyGet(producer, "fax") ELSE NoneV),
                    email |-> (IF IsDict(producer) THEN PyGet(producer, "email") ELSE NoneV)]),
                certificate_holder |-> DictV([
                    name |-> _get_name_only(cert_holder),
                    address |-> _get_address_only(cert_holder)]),
                certificate_number |-> PyGet(organized_data, "certificate_number"),
                authorized_representative |-> PyGet(organized_data, "authorized_representative"),
                insurers |-> insurers])])

-----------------------------------------------------------------------------
(* acord_organizer.py *)

\* s.find(sub, start): the first index, 0-based, at or after start; -1 when
\* absent
Find(s, sub, start) ==
    LET hits == { i \in start..(Len(s) - Len(sub)) :
                    SubSeq(s, i + 1, i + Len(sub)) = sub }
    IN  IF hits = {} THEN -1 ELSE CHOOSE i \in hits : \A j \in hits : i <= j

\* s[start:end], 0-based
Slice(s, start, end) == SubSeq(s, start + 1, end)

\* the backquote, which a TLA+ string cannot hold, is written "~"
BACKQUOTE == "~"

\* the fence of a code block: three backquotes
FENCE == <<BACKQUOTE, BACKQUOTE, BACKQUOTE>>

\* the fence of a JSON code block
FENCE_JSON == FENCE \o <<"j","s","o","n">>

JSON_EMPTY_OBJECT == <<"{","}">>

JSON_EMPTY_ARRAY == <<"[","]">>

JSON_SAMPLE ==
    <<"{","\"","i","n","s","u","r","e","d","\"",":"," ","{","\"","n",
      "a","m","e","\"",":"," ","\"","A","C","M","E","\"",","," ","\"",
      "a","d","d","r","e","s","s","\"",":"," ","\"","1"," ","M","a","i",
      "n","\"","}",","," ","\"","g","e","n","e","r","a","l","_","l","i",
      "a","b","i","l","i","t","y","\"",":"," ","{","\"","p","o","l","i",
      "c","y","_","n","u","m","b","e","r","\"",":"," ","\"","G","L","1",
      "\"",","," ","\"","c","l","a","i","m","s","_","m","a","d","e",
      "\"",":"," ","\"","/","1","\"","}",","," ","\"","i","n","s","u",
      "r","e","r","s","\"",":"," ","[","]","}">>

JSON_MALFORMED ==
    <<"{","\"","g","e","n","e","r","a","l","_","l","i","a","b","i","l",
      "i","t","y","\"",":"," ","\"","n","/","a","\"","}">>

OrganizedSample ==
    DictV([insured |->
               DictV([name |-> StrV(<<"A","C","M","E">>),
                      address |-> StrV(<<"1"," ","M","a","i","n">>)]),
           general_liability |->
               DictV([policy_number |-> StrV(<<"G","L","1">>),
                      claims_made |-> StrV(<<"/","1">>)]),
           insurers |-> ListV(<< >>)])

\* an object whose general_liability is a string, as a model may return
OrganizedMalformed ==
    DictV([general_liability |-> StrV(<<"n","/","a">>)])

\* json.loads over the texts of the model: the JSON documents among them
\* with their values; any other text raises JSONDecodeError
JsonDocuments ==
    << <<JSON_EMPTY_OBJECT, EmptyPyDict>>,
       <<JSON_EMPTY_ARRAY, ListV(<< >>)>>,
       <<JSON_SAMPLE, OrganizedSample>>,
       <<JSON_MALFORMED, OrganizedMalformed>> >>

json_loads(text) ==
    IF HasKey(JsonDocuments, Strip(text))
    THEN [ok |-> TRUE, value |-> Get(JsonDocuments, Strip(text))]
    ELSE [ok |-> FALSE]

\* the text between the opening fence, whose length is skip, and the next
\* fence; the response itself when the fence is not closed
Fenced(response, fence, skip) ==
    LET start == Find(response, fence, 0) + skip
        end == Find(response, FENCE, start)
    IN  IF end > start THEN Strip(Slice(response, start, end)) ELSE response

\* a _parse_response that gives up when the text is not a JSON document
ParseWithoutRecovery(response) ==
    IF ~Truthy(response) THEN EmptyPyDict
    ELSE IF json_loads(Strip(response.s)).ok
    THEN json_loads(Strip(response.s)).value
    ELSE EmptyPyDict

_parse_response(response) ==
    IF ~Truthy(response) THEN EmptyPyDict
    ELSE
        LET stripped == Strip(response.s)
            text == IF Contains(stripped, FENCE_JSON)
                    THEN Fenced(stripped, FENCE_JSON, 7)
                    ELSE IF Contains(stripped, FENCE)
                    THEN Fenced(stripped, FENCE, 3)
                    ELSE stripped
            start == Find(text, <<"{">>, 0)
            end == RFind(text, "}")
        IN  IF json_loads(text).ok THEN json_loads(text).value
            ELSE IF /\ start >= 0
                    /\ end > start
                    /\ json_loads(Slice(text, start, end)).ok
            THEN json_loads(Slice(text, start, end)).value
            ELSE EmptyPyDict

\* What the chat-completion call does in one run: kind "api_error" (the
\* client returns success=False), "raises" (the call raises), "content"
\* (success=True) with the content of the completion.
organize(raw_fields, behaviour) ==
    IF Len(raw_fields) = 0
    THEN [success |-> FALSE, error |-> "No fields to organize",
          organized_data |-> DictV([x \in {} |-> NoneV])]
    ELSE IF behaviour.kind = "api_error"
    THEN [success |-> FALSE, error |-> "API call failed",
          organized_data |-> DictV([x \in {} |-> NoneV])]
    ELSE IF behaviour.kind = "raises"
    THEN [success |-> FALSE, error |-> "exception",
          organized_data |-> DictV([x \in {} |-> NoneV])]
    ELSE [success |-> TRUE,
          organized_data |-> _parse_response(behaviour.content)]

-----------------------------------------------------------------------------
(* Documents, mapping tables and LLM behaviours the model draws its inputs *)
(* from.                                                                   *)

NamedInsured_FullName_A ==
    <<"N","a","m","e","d","I","n","s","u","r","e","d","_","F","u","l","l","N","a","m","e","_","A">>

Policy_GeneralLiability_PolicyNumber_A ==
    <<"P","o","l","i","c","y","_","G","e","n","e","r","a","l","L","i","a","b","i","l","i","t","y","_","P","o","l","i","c","y","N","u","m","b","e","r","_","A">>

CertificateHolder_FullName_A ==
    <<"C","e","r","t","i","f","i","c","a","t","e","H","o","l","d","e","r","_","F","u","l","l","N","a","m","e","_","A">>

Policy_GeneralLiability_ClaimsMade_A ==
    <<"P","o","l","i","c","y","_","G","e","n","e","r","a","l","L","i","a","b","i","l","i","t","y","_","C","l","a","i","m","s","M","a","d","e","_","A">>

Custom_X == <<"C","u","s","t","o","m","_","X">>

INDEX_1 == <<"[","1","]">>

TextField(name, v) == [name |-> name, ft |-> "/Tx", v |-> v, as |-> NoneV]

Button(name, v, as) == [name |-> name, ft |-> "/Btn", v |-> v, as |-> as]

\* For each field a form may carry, the ways it can be filled in; a form
\* holds any subset of these fields, in this order.
FieldChoices ==
    << { TextField(PREFIX_F_P1 \o NamedInsured_FullName_A \o INDEX_0,
                   StrV(<<"A","C","M","E">>)),
         TextField(PREFIX_F_P1 \o NamedInsured_FullName_A \o INDEX_0, NoneV) },
       { TextField(PREFIX_F_P1 \o Policy_GeneralLiability_PolicyNumber_A
                   \o INDEX_0, StrV(<<" ","G","L","1"," ">>)) },
       { TextField(PREFIX_F \o CertificateHolder_FullName_A \o INDEX_0,
                   StrV(<<"B","o","b">>)),
         TextField(PREFIX_F \o CertificateHolder_FullName_A \o INDEX_0,
                   StrV(<<" ">>)) },
       { Button(PREFIX_F_P1 \o Policy_GeneralLiability_ClaimsMade_A
                \o INDEX_0, StrV(<<"/","1">>), NoneV),
         Button(PREFIX_F_P1 \o Policy_GeneralLiability_ClaimsMade_A
                \o INDEX_0, NoneV, StrV(<<"/","O","f","f">>)) },
       { TextField(Custom_X \o INDEX_1, StrV(<<"h","e","l","l","o">>)) } >>

\* the field lists built from the choices i..Len(FieldChoices)
RECURSIVE FieldLists(_)
FieldLists(i) ==
    IF i > Len(FieldChoices) THEN { <<>> }
    ELSE LET rest == FieldLists(i + 1)
         IN  rest \cup { <<f>> \o r : f \in FieldChoices[i], r \in rest }

Docs ==
    { [exists |-> FALSE, readable |-> FALSE, fields |-> <<>>],
      [exists |-> TRUE, readable |-> FALSE, fields |-> <<>>] }
    \cup { [exists |-> TRUE, readable |-> TRUE, fields |-> fs] :
            fs \in FieldLists(1) }

EmptyTable == <<>>

SampleTable ==
    << <<NamedInsured_FullName_A, <<"insured", "name">> >>,
       <<Policy_GeneralLiability_PolicyNumber_A,
         <<"general_liability", "policy_number">> >>,
       <<CertificateHolder_FullName_A, <<"certificate_holder", "name">> >>,
       <<Policy_GeneralLiability_ClaimsMade_A,
         <<"general_liability", "claims_made">> >> >>

Tables == {EmptyTable, SampleTable}

NOT_JSON == <<"I"," ","c","a","n","n","o","t"," ","h","e","l","p",".">>

\* the contents a completion may carry: JSON documents, a document inside
\* a fence, a document inside a sentence, a text without JSON, nothing
LlmContents ==
    { NoneV,
      StrV(JSON_EMPTY_OBJECT),
      StrV(JSON_SAMPLE),
      StrV(JSON_MALFORMED),
      StrV(JSON_EMPTY_ARRAY),
      StrV(FENCE_JSON \o <<"\n">> \o JSON_MALFORMED \o <<"\n">> \o FENCE),
      StrV(<<"O","K",":"," ">> \o JSON_MALFORMED \o <<" ",".">>),
      StrV(NOT_JSON) }

\* what chat_completion does: fails, raises, or returns a content
LlmBehaviours ==
    { [kind |-> "api_error"],
      [kind |-> "raises"] }
    \cup { [kind |-> "content", content |-> c] : c \in LlmContents }

-----------------------------------------------------------------------------
(* acord_pipeline.py: AcordExtractionPipeline.process, one action per      *)
(* stage.  The *_time_ms entries of the result are left out.               *)

NotYet == <<>>

\* no direct_map call has been made
MapperIdle ==
    /\ rawFieldMap = NotYet
    /\ mapped = NotYet

\* the validation_rules table as created, and no RulesService call made
RulesIdle ==
    /\ validation_rules = {}
    /\ identity = 1
    /\ outcome = "none"
    /\ last_call = NotYet

\* no validate_data call is in progress
ValidateIdle ==
    /\ extractData = NoneV
    /\ save_result = NoneV
    /\ success = NoneV
    /\ extracted_product_names = <<>>
    /\ active_rules = <<>>
    /\ vpc = "idle"
    /\ normalized_products = <<>>
    /\ expanded_rules = <<>>
    /\ matched_rule = NoneV
    /\ matched_rule_product_name = NoneV
    /\ match_type = NoneV
    /\ match_score = NoneV
    /\ validation_status = NoneV

\* no extract_pdf call is in progress
UniversalIdle ==
    /\ pdf_path = NotYet
    /\ openai_service = NotYet
    /\ ai_reply = NotYet
    /\ upc = "idle"
    /\ pypdf_task = NotYet
    /\ ocr_task = NotYet
    /\ direct_text = NoneV
    /\ full_text = NoneV
    /\ form_fields = NoneV
    /\ extract_result = NotYet
    /\ task_log = <<>>

\* no organize call is in progress
OrganizerIdle ==
    /\ orgFields = NotYet
    /\ orgLlm = NotYet
    /\ opc = "idle"
    /\ llm_calls = 0
    /\ org_result = NotYet

\* no detect_acord_form call has been made
DetectorIdle ==
    /\ docA = NotYet
    /\ docB = NotYet
    /\ detA = NotYet
    /\ detB = NotYet

\* no format_checkbox call has been made
FormatterIdle ==
    /\ cbValue = NotYet
    /\ cbResult = NotYet
    /\ cbMapped = NotYet

UploadIdle ==
    /\ endpoint = NotYet
    /\ upload = NotYet
    /\ xpc = "idle"
    /\ stored = FALSE
    /\ cleanup = FALSE
    /\ service_result = NotYet
    /\ http_response = NotYet

HelperIdle ==
    /\ rawName = NotYet
    /\ cleanName = NotYet
    /\ buttonField = NotYet
    /\ isChecked = NotYet

NormalizeIdle ==
    /\ ntInput = NotYet
    /\ ntOnce = NotYet
    /\ ntTwice = NotYet

EmbedIdle ==
    /\ emTexts = NotYet
    /\ emApi = NotYet
    /\ emAttempt = 0
    /\ emCalls = 0
    /\ emResult = NotYet

ConcurrentIdle ==
    /\ callA = NotYet
    /\ callB = NotYet

FinalIdle ==
    UploadIdle /\ HelperIdle /\ NormalizeIdle /\ EmbedIdle /\ ConcurrentIdle

LaterIdle ==
    /\ FinalIdle
    /\ FormatterIdle
    /\ DetectorIdle
    /\ OrganizerIdle
    /\ UniversalIdle

\* no process() call is in progress
PipelineIdle ==
    /\ pdf = NotYet
    /\ io2 = FALSE
    /\ llm = NotYet
    /\ pc = "idle"
    /\ result = NotYet
    /\ calls = <<>>
    /\ detection = NotYet
    /\ extraction = NotYet
    /\ openai_data = NotYet
    /\ organization = NotYet
    /\ orgInput = NotYet

PipelineInit ==
    /\ pdf \in Docs
    /\ io2 \in BOOLEAN
    /\ llm \in LlmBehaviours
    /\ field_mappings \in Tables
    /\ pc = "detect"
    /\ result = [success |-> FALSE, detection |-> NotYet,
                 extraction |-> NotYet, organization |-> NotYet,
                 error |-> NoneV]
    /\ calls = <<>>
    /\ detection = NotYet
    /\ extraction = NotYet
    /\ openai_data = NotYet
    /\ organization = NotYet
    /\ orgInput = NotYet
    /\ MapperIdle
    /\ RulesIdle
    /\ ValidateIdle
    /\ LaterIdle

\* Detect without the early return for a PDF that is not fillable
DetectNoReturn ==
    /\ pc = "detect"
    /\ detection' = detect_acord_form(pdf)
    /\ calls' = Append(calls, "detect")
    /\ IF ~detection'.is_fillable
       THEN /\ result' = [result EXCEPT
                    !.detection = detection',
                    !.error = StrV("PDF is not a fillable form")]
            /\ pc' = "extract"
       ELSE IF ~detection'.is_acord
       THEN /\ result' = [result EXCEPT
                    !.detection = detection',
                    !.error = StrV("PDF does not appear to be an ACORD form")]
            /\ pc' = "extract"
       ELSE /\ result' = [result EXCEPT !.detection = detection']
            /\ pc' = "extract"
    /\ UNCHANGED <<pdf, io2, llm, field_mappings, extraction, openai_data,
                   organization, orgInput>>
    /\ UNCHANGED outsidePipeline

\* Step 1: detect_acord_form
Detect ==
    /\ pc = "detect"
    /\ detection' = detect_acord_form(pdf)
    /\ calls' = Append(calls, "detect")
    /\ IF ~detection'.is_fillable
       THEN /\ result' = [result EXCEPT
                    !.detection = detection',
                    !.error = StrV("PDF is not a fillable form")]
            /\ pc' = "done"
       ELSE IF ~detection'.is_acord
       THEN /\ result' = [result EXCEPT
                    !.detection = detection',
                    !.error = StrV("PDF does not appear to be an ACORD form")]
            /\ pc' = "extract"
       ELSE /\ result' = [result EXCEPT !.detection = detection']
            /\ pc' = "extract"
    /\ UNCHANGED <<pdf, io2, llm, field_mappings, extraction, openai_data,
                   organization, orgInput>>
    /\ UNCHANGED outsidePipeline

\* Extract returning on failure without recording the error
ExtractNoError ==
    /\ pc = "extract"
    /\ extraction' = extract_form_fields(pdf, io2)
    /\ calls' = Append(calls, "extract")
    /\ result' = [result EXCEPT
            !.extraction = [field_count |-> extraction'.field_count,
                            success |-> extraction'.success]]
    /\ pc' = IF ~extraction'.success THEN "done" ELSE "prepare"
    /\ UNCHANGED <<pdf, io2, llm, field_mappings, detection, openai_data,
                   organization, orgInput>>
    /\ UNCHANGED outsidePipeline

\* Step 2: extract_form_fields
Extract ==
    /\ pc = "extract"
    /\ extraction' = extract_form_fields(pdf, io2)
    /\ calls' = Append(calls, "extract")
    /\ IF ~extraction'.success
       THEN /\ result' = [result EXCEPT
                    !.extraction = [field_count |-> extraction'.field_count,
                                    success |-> extraction'.success],
                    !.error = StrV(extraction'.error)]
            /\ pc' = "done"
       ELSE /\ result' = [result EXCEPT
                    !.extraction = [field_count |-> extraction'.field_count,
                                    success |-> extraction'.success]]
            /\ pc' = "prepare"
    /\ UNCHANGED <<pdf, io2, llm, field_mappings, detection, openai_data,
                   organization, orgInput>>
    /\ UNCHANGED outsidePipeline

\* extract_for_openai_from_result
Prepare ==
    /\ pc = "prepare"
    /\ openai_data' = extract_for_openai_from_result(extraction)
    /\ calls' = Append(calls, "prepare")
    /\ IF ~openai_data'.success
       THEN /\ result' = [result EXCEPT !.error = StrV(openai_data'.error)]
            /\ pc' = "done"
       ELSE /\ result' = result
            /\ pc' = "organize"
    /\ UNCHANGED <<pdf, io2, llm, field_mappings, detection, extraction,
                   organization, orgInput>>
    /\ UNCHANGED outsidePipeline

\* Step 3: self.organizer.organize
Organize ==
    /\ pc = "organize"
    /\ orgInput' = openai_data.data
    /\ organization' = organize(openai_data.data, llm)
    /\ calls' = Append(calls, "organize")
    /\ IF ~organization'.success
       THEN /\ result' = [result EXCEPT
                    !.organization = organization',
                    !.error = StrV(organization'.error)]
            /\ pc' = "done"
       ELSE /\ result' = [result EXCEPT !.organization = organization']
            /\ pc' = "format"
    /\ UNCHANGED <<pdf, io2, llm, field_mappings, detection, extraction,
                   openai_data>>
    /\ UNCHANGED outsidePipeline

\* Step 4: self.formatter.format; an exception of the formatter leaves
\* process() as an exception, with no result returned
Format ==
    /\ pc = "format"
    /\ calls' = Append(calls, "format")
    /\ IF FormatRaises(organization.organized_data)
       THEN /\ result' = result
            /\ pc' = "raised"
       ELSE /\ result' =
                Assign([result EXCEPT !.success = TRUE], "formatted_data",
                       format_for_tabs(organization.organized_data))
            /\ pc' = "done"
    /\ UNCHANGED <<pdf, io2, llm, field_mappings, detection, extraction,
                   openai_data, organization, orgInput>>
    /\ UNCHANGED outsidePipeline

PipelineNext == Detect \/ Extract \/ Prepare \/ Organize \/ Format

vars == <<pipelineVars, mapperVars, rulesVars, validateVars, laterVars>>

SpecPipeline == PipelineInit /\ [][PipelineNext]_vars

-----------------------------------------------------------------------------
(* Properties of the pipeline *)

Called(stage) == \E i \in 1..Len(calls) : calls[i] = stage

StageOrder == <<"detect", "extract", "prepare", "organize", "format">>

\* C1: when the organizing stage fails (the organizer returns
\* success=false), the run still ends with success=true and formatted_data
\* present.
C1_OrganizerFailureDegrades ==
    (pc = "done" /\ Called("organize") /\ ~organization.success)
        => (result.success /\ "formatted_data" \in DOMAIN result)

\* C2: the stages run in the fixed order detect, extract, prepare,
\* organize, format, each at most once; a finished run takes no further
\* step; after an abort at detection only the detector has been called, and
\* after an abort at extraction only the detector and the extractor.
C2_StageOrderAndAbort ==
    /\ calls = SubSeq(StageOrder, 1, Len(calls))
    /\ Len(calls) <= Len(StageOrder)
    /\ pc \in {"done", "raised"} => ~ENABLED PipelineNext
    /\ (pc = "done" /\ ~detection.is_fillable) => calls = <<"detect">>
    /\ (pc = "done" /\ Called("extract") /\ ~extraction.success)
            => calls = <<"detect", "extract">>

\* a run that was aborted at extraction
C2_Witness ==
    /\ pc = "done"
    /\ calls = <<"detect", "extract">>
    /\ detection.is_fillable
    /\ ~extraction.success

\* C3: a result with success=true contains formatted_data; a result with
\* success=false has a non-null error and contains no formatted_data.
C3_ResultShape ==
    pc = "done" =>
        /\ result.success => "formatted_data" \in DOMAIN result
        /\ ~result.success =>
                /\ ~IsNone(result.error)
                /\ "formatted_data" \notin DOMAIN result

\* a successful run and its formatted_data
C3_Witness ==
    /\ pc = "done"
    /\ result.success
    /\ "formatted_data" \in DOMAIN result
    /\ calls = StageOrder

\* C4: the argument the pipeline hands to the organizer is exactly the
\* UnmappedFieldSet the Direct Mapper makes of the extracted fields, so no
\* field consumed into the CoverageSchema is sent to the LLM.
C4_OrganizerGetsUnmappedOnly ==
    Called("organize") =>
        /\ orgInput =
             direct_map(field_mappings, openai_data.data).unmapped_fields
        /\ \A i \in 1..Len(field_mappings) :
                _is_coverage_path(field_mappings[i][2])
                    => ~HasKey(orgInput, field_mappings[i][1])

-----------------------------------------------------------------------------
(* direct_mapper.py: DirectMapper.direct_map called on its own.  The       *)
(* mapper object keeps its table; every call gets a RawFieldMap.           *)

Custom_Y == <<"C","u","s","t","o","m","_","Y">>

\* For each raw key a RawFieldMap may hold, the values it may have; a map
\* holds any subset of these keys, in this order.
RawChoices ==
    << { <<NamedInsured_FullName_A \o INDEX_0, StrV(<<"A","C","M","E">>)>>,
         <<NamedInsured_FullName_A \o INDEX_0, NoneV>> },
       { <<Policy_GeneralLiability_PolicyNumber_A \o INDEX_0,
           StrV(<<" ","G","L","1"," ">>)>>,
         <<Policy_GeneralLiability_PolicyNumber_A \o INDEX_0, NoneV>> },
       { <<Policy_GeneralLiability_ClaimsMade_A \o INDEX_0, StrV(YES)>>,
         <<Policy_GeneralLiability_ClaimsMade_A \o INDEX_0, BoolV(FALSE)>> },
       { <<Custom_X \o INDEX_0, StrV(<<"h","e","l","l","o">>)>>,
         <<Custom_X, NoneV>> },
       { <<Custom_X \o INDEX_1, StrV(<<"b","y","e">>)>> },
       { <<Custom_Y, StrV(<<"n","o","t","e">>)>> } >>

RECURSIVE RawFieldMaps(_)
RawFieldMaps(i) ==
    IF i > Len(RawChoices) THEN { <<>> }
    ELSE LET rest == RawFieldMaps(i + 1)
         IN  rest \cup { <<f>> \o r : f \in RawChoices[i], r \in rest }

\* SampleTable and one more entry, whose coverage path names a key that
\* _init_coverage_structure does not create
ExtendedTable ==
    SampleTable \o << <<Custom_Y, <<"general_liability", "note">> >> >>

MapperTables == {EmptyTable, SampleTable, ExtendedTable}

MapperInit ==
    /\ field_mappings \in MapperTables
    /\ MapperIdle
    /\ PipelineIdle
    /\ RulesIdle
    /\ ValidateIdle
    /\ LaterIdle

\* one call coverage_data, unmapped_fields = mapper.direct_map(raw_fields)
DirectMap ==
    /\ \E rf \in RawFieldMaps(1) :
        /\ rawFieldMap' = rf
        /\ mapped' = direct_map(field_mappings, rf)
    /\ UNCHANGED <<pipelineVars, rulesVars, validateVars, laterVars>>

MapperNext == DirectMap

SpecMapper == MapperInit /\ [][MapperNext]_vars

\* the value at `path` of a nested dict, or NotYet when a key is missing
RECURSIVE ReadPath(_, _)
ReadPath(data, path) ==
    IF path = <<>> THEN data
    ELSE IF ~IsDict(data) \/ path[1] \notin DOMAIN data.d THEN NotYet
    ELSE ReadPath(data.d[path[1]], Tail(path))

\* the leaf a raw value is expected to become at `path`
ExpectedLeaf(path, value) ==
    LET v == IF IsStr(value) THEN StrV(Strip(value.s)) ELSE value
    IN  IF path[Len(path)] \in checkbox_fields THEN normalize_value(v)
        ELSE v

\* raw field i of the last call was written into the CoverageSchema
\* through a coverage-path entry of the table
ConsumedByCoverage(i) ==
    \E j \in 1..Len(field_mappings) :
        /\ field_mappings[j][1] = NormalizeKey(rawFieldMap[i][1])
        /\ _is_coverage_path(field_mappings[j][2])
        /\ ReadPath(mapped.coverage_data, field_mappings[j][2])
             = ExpectedLeaf(field_mappings[j][2], rawFieldMap[i][2])

\* raw field i of the last call is present in the UnmappedFieldSet
InUnmappedFieldSet(i) ==
    /\ HasKey(mapped.unmapped_fields, NormalizeKey(rawFieldMap[i][1]))
    /\ Get(mapped.unmapped_fields, NormalizeKey(rawFieldMap[i][1]))
         = rawFieldMap[i][2]

\* C5: after direct_map, every raw field of the input is in exactly one of
\* the two places: written into the CoverageSchema through a coverage-path
\* mapping, or present in the UnmappedFieldSet; none is dropped (a null
\* value, or a key that differs from another only by its index suffix) and
\* none is in both.
C5_EveryFieldInExactlyOnePlace ==
    mapped # NotYet =>
        \A i \in 1..Len(rawFieldMap) :
            ConsumedByCoverage(i) # InUnmappedFieldSet(i)

\* two values have the same keys at every nesting level
RECURSIVE SameKeySet(_, _)
SameKeySet(a, b) ==
    IF IsDict(a) /\ IsDict(b)
    THEN /\ DOMAIN a.d = DOMAIN b.d
         /\ \A k \in DOMAIN a.d : SameKeySet(a.d[k], b.d[k])
    ELSE ~IsDict(a) /\ ~IsDict(b)

\* C6: for every raw input, the empty map included, and every mapping
\* table, the CoverageSchema direct_map returns has the key set of the
\* schema initialized with no data, at every nesting level.
C6_SchemaShape ==
    mapped # NotYet =>
        SameKeySet(mapped.coverage_data, _init_coverage_structure)

-----------------------------------------------------------------------------
(* rules_service.py: RulesService over the validation_rules table.  A row  *)
(* is [id, certificate_type, product_name, is_active].  Every operator     *)
(* returns the table after the call, the next IDENTITY value and how the   *)
(* call ended ("ok" or the exception raised).  The IDENTITY column hands   *)
(* out increasing ids and does not take back the ids of a rolled-back      *)
(* transaction.                                                            *)

Raise(rows, next_id, exc) ==
    [rows |-> rows, identity |-> next_id, outcome |-> exc]

\* the duplicate check comparing the stored text as it is, without LOWER
DuplicateCheckExactCase(rows, certificate_type, product_name) ==
    { r \in rows : /\ r.certificate_type = certificate_type
                   /\ r.product_name = product_name }

\* WHERE LOWER(certificate_type) = LOWER(?) AND LOWER(product_name) = LOWER(?)
duplicate_check_query(rows, certificate_type, product_name) ==
    { r \in rows : /\ Lower(r.certificate_type) = Lower(certificate_type)
                   /\ Lower(r.product_name) = Lower(product_name) }

\* the same, AND id <> ?
duplicate_query(rows, certificate_type, product_name, rule_id) ==
    { r \in rows : /\ Lower(r.certificate_type) = Lower(certificate_type)
                   /\ Lower(r.product_name) = Lower(product_name)
                   /\ r.id # rule_id }

\* INSERT INTO validation_rules ... OUTPUT INSERTED.id
insert_query(rows, next_id, certificate_type, product_name, is_active) ==
    rows \cup { [id |-> next_id, certificate_type |-> certificate_type,
                 product_name |-> product_name, is_active |-> is_active] }

\* UPDATE validation_rules SET ... WHERE id = ?
update_query(rows, certificate_type, product_name, is_active, rule_id) ==
    { IF r.id = rule_id
      THEN [id |-> rule_id, certificate_type |-> certificate_type,
            product_name |-> product_name, is_active |-> is_active]
      ELSE r : r \in rows }

\* SELECT ... WHERE id IN (...)
find_query(rows, ids) == { r \in rows : r.id \in ids }

\* DELETE FROM validation_rules WHERE id IN (...)
delete_query(rows, ids) == { r \in rows : r.id \notin ids }

create_rule(rows, next_id, certificate_type, product_name, is_active) ==
    LET normalized_certificate_type == Strip(certificate_type)
        normalized_product_name == Strip(product_name)
    IN  IF normalized_certificate_type = <<>>
        THEN Raise(rows, next_id, "ValueError")
        ELSE IF normalized_product_name = <<>>
        THEN Raise(rows, next_id, "ValueError")
        ELSE IF duplicate_check_query(rows, normalized_certificate_type,
                                      normalized_product_name) # {}
        THEN Raise(rows, next_id, "ValueError")
        ELSE [rows |-> insert_query(rows, next_id,
                          normalized_certificate_type,
                          normalized_product_name, is_active),
              identity |-> next_id + 1,
              outcome |-> "ok"]

update_rule(rows, next_id, rule_id, certificate_type, product_name, is_active) ==
    LET normalized_certificate_type == Strip(certificate_type)
        normalized_product_name == Strip(product_name)
    IN  IF normalized_certificate_type = <<>>
        THEN Raise(rows, next_id, "ValueError")
        ELSE IF normalized_product_name = <<>>
        THEN Raise(rows, next_id, "ValueError")
        ELSE IF find_query(rows, {rule_id}) = {}
        THEN Raise(rows, next_id, "LookupError")
        ELSE IF duplicate_query(rows, normalized_certificate_type,
                                normalized_product_name, rule_id) # {}
        THEN Raise(rows, next_id, "ValueError")
        ELSE [rows |-> update_query(rows, normalized_certificate_type,
                          normalized_product_name, is_active, rule_id),
              identity |-> next_id,
              outcome |-> "ok"]

delete_rule(rows, next_id, rule_id) ==
    IF find_query(rows, {rule_id}) = {}
    THEN Raise(rows, next_id, "LookupError")
    ELSE [rows |-> delete_query(rows, {rule_id}),
          identity |-> next_id,
          outcome |-> "ok"]

\* the set of elements of a sequence
Range(seq) == { seq[i] : i \in 1..Len(seq) }

\* The first loop of create_rules_bulk: strip, require both texts, refuse a
\* pair already seen in the request.
RECURSIVE NormalizeCreate(_, _, _, _)
NormalizeCreate(rules, i, seen_pairs, normalized_rules) ==
    IF i > Len(rules) THEN [ok |-> TRUE, rules |-> normalized_rules]
    ELSE
        LET certificate_type == Strip(rules[i].certificate_type)
            product_name == Strip(rules[i].product_name)
            pair_key == <<Lower(certificate_type), Lower(product_name)>>
        IN  IF \/ certificate_type = <<>>
               \/ product_name = <<>>
               \/ pair_key \in seen_pairs
            THEN [ok |-> FALSE, rules |-> <<>>]
            ELSE NormalizeCreate(rules, i + 1, seen_pairs \cup {pair_key},
                    Append(normalized_rules,
                        [certificate_type |-> certificate_type,
                         product_name |-> product_name,
                         is_active |-> rules[i].is_active]))

\* the loop of create_rules_bulk inside the transaction
RECURSIVE InsertAll(_, _, _, _)
InsertAll(rows, next_id, normalized_rules, i) ==
    IF i > Len(normalized_rules)
    THEN [rows |-> rows, identity |-> next_id, outcome |-> "ok"]
    ELSE
        LET rule == normalized_rules[i]
        IN  IF duplicate_check_query(rows, rule.certificate_type,
                                     rule.product_name) # {}
            THEN Raise(rows, next_id, "ValueError")
            ELSE InsertAll(
                    insert_query(rows, next_id, rule.certificate_type,
                                 rule.product_name, rule.is_active),
                    next_id + 1, normalized_rules, i + 1)

\* create_rules_bulk without conn.rollback()
CreateBulkWithoutRollback(rows, next_id, rules) ==
    IF rules = <<>> THEN Raise(rows, next_id, "ValueError")
    ELSE
        LET n == NormalizeCreate(rules, 1, {}, <<>>)
        IN  IF ~n.ok THEN Raise(rows, next_id, "ValueError")
            ELSE InsertAll(rows, next_id, n.rules, 1)

create_rules_bulk(rows, next_id, rules) ==
    IF rules = <<>> THEN Raise(rows, next_id, "ValueError")
    ELSE
        LET n == NormalizeCreate(rules, 1, {}, <<>>)
        IN  IF ~n.ok THEN Raise(rows, next_id, "ValueError")
            ELSE
                LET t == InsertAll(rows, next_id, n.rules, 1)
                IN  IF t.outcome = "ok" THEN t
                    ELSE \* conn.rollback()
                         Raise(rows, t.identity, t.outcome)

\* The first loop of update_rules_bulk: positive ids, no id twice, both
\* texts, no pair twice.
RECURSIVE NormalizeUpdate(_, _, _, _, _)
NormalizeUpdate(rules, i, seen_ids, seen_pairs, normalized_rules) ==
    IF i > Len(rules) THEN [ok |-> TRUE, rules |-> normalized_rules]
    ELSE
        LET rule_id == rules[i].id
            certificate_type == Strip(rules[i].certificate_type)
            product_name == Strip(rules[i].product_name)
            pair_key == <<Lower(certificate_type), Lower(product_name)>>
        IN  IF \/ rule_id <= 0
               \/ rule_id \in seen_ids
               \/ certificate_type = <<>>
               \/ product_name = <<>>
               \/ pair_key \in seen_pairs
            THEN [ok |-> FALSE, rules |-> <<>>]
            ELSE NormalizeUpdate(rules, i + 1, seen_ids \cup {rule_id},
                    seen_pairs \cup {pair_key},
                    Append(normalized_rules,
                        [id |-> rule_id,
                         certificate_type |-> certificate_type,
                         product_name |-> product_name,
                         is_active |-> rules[i].is_active]))

\* the loop of update_rules_bulk inside the transaction
RECURSIVE UpdateAll(_, _, _, _)
UpdateAll(rows, next_id, normalized_rules, i) ==
    IF i > Len(normalized_rules)
    THEN [rows |-> rows, identity |-> next_id, outcome |-> "ok"]
    ELSE
        LET rule == normalized_rules[i]
        IN  IF duplicate_query(rows, rule.certificate_type,
                               rule.product_name, rule.id) # {}
            THEN Raise(rows, next_id, "ValueError")
            ELSE IF find_query(rows, {rule.id}) = {}   \* rowcount == 0
            THEN Raise(rows, next_id, "LookupError")
            ELSE UpdateAll(
                    update_query(rows, rule.certificate_type,
                                 rule.product_name, rule.is_active, rule.id),
                    next_id, normalized_rules, i + 1)

update_rules_bulk(rows, next_id, rules) ==
    IF rules = <<>> THEN Raise(rows, next_id, "ValueError")
    ELSE
        LET n == NormalizeUpdate(rules, 1, {}, {}, <<>>)
        IN  IF ~n.ok THEN Raise(rows, next_id, "ValueError")
            ELSE
                LET found_ids ==
                        { r.id : r \in find_query(rows,
                                    { x.id : x \in Range(n.rules) }) }
                    missing_ids ==
                        { x.id : x \in Range(n.rules) } \ found_ids
                IN  IF missing_ids # {}
                    THEN Raise(rows, next_id, "LookupError")
                    ELSE
                        LET t == UpdateAll(rows, next_id, n.rules, 1)
                        IN  IF t.outcome = "ok" THEN t
                            ELSE \* conn.rollback()
                                 Raise(rows, next_id, t.outcome)

delete_rules_bulk(rows, next_id, rule_ids) ==
    IF rule_ids = <<>> THEN Raise(rows, next_id, "ValueError")
    ELSE IF \E i \in 1..Len(rule_ids) :
                \/ rule_ids[i] <= 0
                \/ \E j \in 1..(i - 1) : rule_ids[j] = rule_ids[i]
    THEN Raise(rows, next_id, "ValueError")
    ELSE
        LET found_rules == find_query(rows, Range(rule_ids))
            missing_ids == Range(rule_ids) \ { r.id : r \in found_rules }
        IN  IF missing_ids # {}
            THEN Raise(rows, next_id, "LookupError")
            ELSE [rows |-> delete_query(rows, Range(rule_ids)),
                  identity |-> next_id,
                  outcome |-> "ok"]

\* the largest id the IDENTITY column hands out in the model
MaxRuleId == 3

\* the longest list a bulk request carries
MaxBulk == 2

RuleInput(certificate_type, product_name, is_active) ==
    [certificate_type |-> certificate_type, product_name |-> product_name,
     is_active |-> is_active]

\* the rule payloads of the requests
RuleInputs ==
    { RuleInput(<<"G","L">>, <<"T","e","a">>, TRUE),
      RuleInput(<<" ","g","l"," ">>, <<"T","E","A">>, FALSE),
      RuleInput(<<"W","C">>, <<"T","e","a">>, TRUE),
      RuleInput(<<"G","L">>, <<"C","u","p">>, TRUE),
      RuleInput(<<"G","L">>, <<" ">>, TRUE) }

WithId(rule_id, rule) ==
    [id |-> rule_id, certificate_type |-> rule.certificate_type,
     product_name |-> rule.product_name, is_active |-> rule.is_active]

\* the payloads of the update requests
UpdateInputs ==
    { WithId(1, RuleInput(<<"g","l">>, <<"t","e","a">>, TRUE)),
      WithId(1, RuleInput(<<"W","C">>, <<"T","e","a">>, FALSE)),
      WithId(2, RuleInput(<<"G","L">>, <<"T","e","a"," ">>, TRUE)),
      WithId(2, RuleInput(<<"G","L">>, <<"C","u","p">>, FALSE)),
      WithId(3, RuleInput(<<"G","L">>, <<"t","e","a">>, TRUE)),
      WithId(0, RuleInput(<<"G","L">>, <<"T","e","a">>, TRUE)) }

RuleIds == 0..MaxRuleId

\* the lists of at most MaxBulk elements of a set
RECURSIVE ListsUpTo(_, _)
ListsUpTo(S, n) ==
    IF n = 0 THEN { <<>> }
    ELSE LET shorter == ListsUpTo(S, n - 1)
         IN  shorter \cup { Append(l, x) : l \in shorter, x \in S }

RulesInit ==
    /\ RulesIdle
    /\ field_mappings = EmptyTable
    /\ MapperIdle
    /\ PipelineIdle
    /\ ValidateIdle
    /\ LaterIdle

\* the database state after a call
Store(t) ==
    /\ validation_rules' = t.rows
    /\ identity' = t.identity
    /\ outcome' = t.outcome
    /\ UNCHANGED <<last_call, pipelineVars, mapperVars, validateVars, laterVars>>

CreateRule ==
    /\ identity <= MaxRuleId
    /\ \E rule \in RuleInputs :
        Store(create_rule(validation_rules, identity, rule.certificate_type,
                          rule.product_name, rule.is_active))

CreateRulesBulk ==
    \E rules \in ListsUpTo(RuleInputs, MaxBulk) :
        /\ identity + Len(rules) - 1 <= MaxRuleId
        /\ Store(create_rules_bulk(validation_rules, identity, rules))

UpdateRule ==
    \E rule \in UpdateInputs :
        Store(update_rule(validation_rules, identity, rule.id,
                          rule.certificate_type, rule.product_name,
                          rule.is_active))

UpdateRulesBulk ==
    \E rules \in ListsUpTo(UpdateInputs, MaxBulk) :
        Store(update_rules_bulk(validation_rules, identity, rules))

DeleteRule ==
    \E rule_id \in RuleIds :
        Store(delete_rule(validation_rules, identity, rule_id))

DeleteRulesBulk ==
    \E rule_ids \in ListsUpTo(RuleIds, MaxBulk) :
        Store(delete_rules_bulk(validation_rules, identity, rule_ids))

RulesNext ==
    \/ CreateRule
    \/ CreateRulesBulk
    \/ UpdateRule
    \/ UpdateRulesBulk
    \/ DeleteRule
    \/ DeleteRulesBulk

SpecRules == RulesInit /\ [][RulesNext]_vars

\* C7: whatever create, update and delete calls (single and bulk) have
\* been made, one at a time, no two stored rules, active or not, have the
\* same (certificate_type, product_name) pair compared case-insensitively.
C7_UniqueRulePairs ==
    \A r1, r2 \in validation_rules :
        ( /\ Lower(r1.certificate_type) = Lower(r2.certificate_type)
          /\ Lower(r1.product_name) = Lower(r2.product_name) )
            => r1 = r2

\* two rules are stored, one of them in a spelling that differs by case
\* from a payload, and the last call was refused
C7_Witness ==
    /\ Cardinality(validation_rules) >= 2
    /\ \E r \in validation_rules :
            /\ r.certificate_type = <<"g","l">>
            /\ r.product_name = <<"T","E","A">>
    /\ outcome = "ValueError"

-----------------------------------------------------------------------------
(* validation_service.py: text normalization and the similarity scores.    *)
(* A score is an exact fraction <<numerator, denominator>>; the code's     *)
(* float comparisons against 0.6, 0.5, 0.70, 0.75 and 0.80 are decided     *)
(* the same way by the exact fractions.                                    *)

LowerLetters == { UpperToLower[c] : c \in DOMAIN UpperToLower }

\* text.replace(old, new) for a single character old
RECURSIVE Replace(_, _, _)
Replace(text, old, new) ==
    IF text = <<>> THEN <<>>
    ELSE (IF Head(text) = old THEN new ELSE <<Head(text)>>)
            \o Replace(Tail(text), old, new)

\* re.sub(r"\s+", " ", text)
RECURSIVE CollapseWhitespace(_)
CollapseWhitespace(text) ==
    IF text = <<>> THEN <<>>
    ELSE IF Head(text) \in Whitespace
    THEN <<" ">> \o CollapseWhitespace(LStrip(text))
    ELSE <<Head(text)>> \o CollapseWhitespace(Tail(text))

\* re.sub(r"[^a-z0-9\s]", "", text)
KeepAlnumSpace(text) ==
    SelectSeq(text,
              LAMBDA c : c \in LowerLetters \cup Digits \cup Whitespace)

AND_WORD == <<" ", "a", "n", "d", " ">>

\* value is a str here; None is handled by the callers of the model
_normalize_text(value) ==
    LET t1 == Lower(Strip(value))
        t2 == Replace(t1, "&", AND_WORD)
        t3 == Replace(t2, "+", AND_WORD)
        t4 == Replace(t3, "/", <<" ">>)
        t5 == Replace(t4, "_", <<" ">>)
        t6 == Replace(t5, "-", <<" ">>)
        t7 == CollapseWhitespace(t6)
        t8 == KeepAlnumSpace(t7)
    IN  Strip(t8)

\* text.split(sep) with the empty parts dropped, sep a set of characters;
\* cur is the part being read
RECURSIVE SplitTokens(_, _, _)
SplitTokens(text, seps, cur) ==
    IF text = <<>> THEN (IF cur = <<>> THEN <<>> ELSE <<cur>>)
    ELSE IF Head(text) \in seps
    THEN (IF cur = <<>> THEN <<>> ELSE <<cur>>)
            \o SplitTokens(Tail(text), seps, <<>>)
    ELSE SplitTokens(Tail(text), seps, Append(cur, Head(text)))

RuleSeparators == {",", ";", "\n", "|"}

\* re.split(r"[,;\n|]+", raw_text): the parts between runs of separators,
\* an empty first or last part included
RECURSIVE ReSplit(_, _, _)
ReSplit(text, cur, inRun) ==
    IF text = <<>> THEN <<cur>>
    ELSE IF Head(text) \in RuleSeparators
    THEN (IF inRun THEN <<>> ELSE <<cur>>) \o ReSplit(Tail(text), <<>>, TRUE)
    ELSE ReSplit(Tail(text), Append(cur, Head(text)), FALSE)

\* the loop over split_parts
RECURSIVE NormalizeParts(_, _, _)
NormalizeParts(split_parts, i, normalized_candidates) ==
    IF i > Len(split_parts) THEN normalized_candidates
    ELSE
        LET normalized == _normalize_text(split_parts[i])
        IN  NormalizeParts(split_parts, i + 1,
                IF normalized # <<>>
                   /\ normalized \notin Range(normalized_candidates)
                THEN Append(normalized_candidates, normalized)
                ELSE normalized_candidates)

_normalized_rule_product_candidates(raw_rule_value) ==
    LET raw_text == Strip(raw_rule_value)
    IN  IF raw_text = <<>> THEN <<>>
        ELSE
            LET normalized_candidates ==
                    NormalizeParts(ReSplit(raw_text, <<>>, FALSE), 1, <<>>)
                normalized_full == _normalize_text(raw_text)
            IN  IF normalized_candidates # <<>> THEN normalized_candidates
                ELSE IF normalized_full # <<>> THEN <<normalized_full>>
                ELSE <<>>

ZERO == <<0, 1>>

\* a >= b for fractions with positive denominators
GreaterEq(a, b) == a[1] * b[2] >= b[1] * a[2]

Greater(a, b) == a[1] * b[2] > b[1] * a[2]

MIN_TOKEN_INTERSECTION == 1

_token_overlap_score(left, right) ==
    LET left_tokens == Range(SplitTokens(left, {" "}, <<>>))
        right_tokens == Range(SplitTokens(right, {" "}, <<>>))
        intersection == left_tokens \cap right_tokens
        union == left_tokens \cup right_tokens
    IN  IF left_tokens = {} \/ right_tokens = {} THEN ZERO
        ELSE IF Cardinality(intersection) < MIN_TOKEN_INTERSECTION THEN ZERO
        ELSE IF union = {} THEN ZERO
        ELSE <<Cardinality(intersection), Cardinality(union)>>

\* PorterStemmer.stem on the words of the model: a final "s" after a
\* consonant-vowel-consonant word is dropped; the other words of the model
\* are their own stems.
PluralWords ==
    { <<"c","u","p","s">>, <<"t","e","a","s">>, <<"l","i","d","s">> }

stem(tok) ==
    IF tok \in PluralWords THEN SubSeq(tok, 1, Len(tok) - 1) ELSE tok

_stem_tokens(text) ==
    { stem(tok) : tok \in Range(SplitTokens(text, Whitespace, <<>>)) }

_stem_based_overlap_score(left, right) ==
    LET left_stems == _stem_tokens(left)
        right_stems == _stem_tokens(right)
        intersection == left_stems \cap right_stems
        union == left_stems \cup right_stems
    IN  IF left_stems = {} \/ right_stems = {} THEN ZERO
        ELSE IF intersection = {} THEN ZERO
        ELSE IF union = {} THEN ZERO
        ELSE <<Cardinality(intersection), Cardinality(union)>>

\* difflib.SequenceMatcher(None, a, b) for strings shorter than the
\* autojunk limit: no character is junk.

\* the length of the common run of a[i..ahi] and b[j..bhi]
RECURSIVE RunLength(_, _, _, _, _, _)
RunLength(a, b, i, j, ahi, bhi) ==
    IF i > ahi \/ j > bhi THEN 0
    ELSE IF a[i] # b[j] THEN 0
    ELSE 1 + RunLength(a, b, i + 1, j + 1, ahi, bhi)

\* find_longest_match(alo, ahi, blo, bhi) on 1-based inclusive ranges: the
\* longest block, of those the one starting earliest in a, of those the
\* one starting earliest in b; size 0 when nothing matches
find_longest_match(a, b, alo, ahi, blo, bhi) ==
    LET size == [p \in (alo..ahi) \X (blo..bhi) |->
                    RunLength(a, b, p[1], p[2], ahi, bhi)]
        sizes == { size[p] : p \in DOMAIN size }
        bestsize == CHOOSE k \in sizes : \A n \in sizes : n <= k
        longest == { p \in DOMAIN size : size[p] = bestsize }
        besti == CHOOSE i \in { p[1] : p \in longest } :
                    \A p \in longest : i <= p[1]
        bestj == CHOOSE j \in { p[2] : p \in { q \in longest :
                                                  q[1] = besti } } :
                    \A p \in longest : p[1] = besti => j <= p[2]
    IN  [i |-> besti, j |-> bestj, size |-> bestsize]

\* the sum of the sizes of get_matching_blocks() within the ranges
RECURSIVE MatchingSize(_, _, _, _, _, _)
MatchingSize(a, b, alo, ahi, blo, bhi) ==
    IF alo > ahi \/ blo > bhi THEN 0
    ELSE
        LET m == find_longest_match(a, b, alo, ahi, blo, bhi)
        IN  IF m.size = 0 THEN 0
            ELSE m.size
                 + MatchingSize(a, b, alo, m.i - 1, blo, m.j - 1)
                 + MatchingSize(a, b, m.i + m.size, ahi, m.j + m.size, bhi)

\* SequenceMatcher(None, a, b).ratio() = 2.0 * matches / (len(a) + len(b))
ratio(a, b) ==
    IF Len(a) + Len(b) = 0 THEN <<1, 1>>
    ELSE <<2 * MatchingSize(a, b, 1, Len(a), 1, Len(b)), Len(a) + Len(b)>>

TOKEN_OVERLAP_THRESHOLD == <<6, 10>>

STEM_OVERLAP_THRESHOLD == <<5, 10>>

FUZZY_THRESHOLD == <<80, 100>>

FUZZY_SHORT_STRING_THRESHOLD == <<70, 100>>

FUZZY_MEDIUM_THRESHOLD == <<75, 100>>

Min(x, y) == IF x <= y THEN x ELSE y

\* the similarity ratio whatever its size, without the cutoff
FuzzyRatioNoCutoff(str1, str2) == ratio(str1, str2)

_fuzzy_similarity(str1, str2) ==
    LET r == ratio(str1, str2)
        min_len == Min(Len(str1), Len(str2))
        threshold ==
            IF min_len <= 4 THEN FUZZY_SHORT_STRING_THRESHOLD
            ELSE IF min_len <= 10 THEN FUZZY_MEDIUM_THRESHOLD
            ELSE FUZZY_THRESHOLD
    IN  IF GreaterEq(r, threshold) THEN r ELSE ZERO

\* round(score, 3), in thousandths: the nearest, the even one on a tie
Round3(score) ==
    LET n == 1000 * score[1]
        q == n \div score[2]
        twice == 2 * (n % score[2])
    IN  IF twice > score[2] THEN q + 1
        ELSE IF twice < score[2] THEN q
        ELSE IF q % 2 = 0 THEN q ELSE q + 1

-----------------------------------------------------------------------------
(* validation_service.py: ValidationService.validate_data from the         *)
(* extracted product names on, one action per tier of the cascade.  The    *)
(* active rules are the rows the query returns, ORDER BY id DESC.          *)

CERTIFICATE == <<"c","e","r","t","i","f","i","c","a","t","e">>

\* a document_type as the extraction may spell it
CERTIFICATE_UPPER == <<" ","C","e","r","t","i","f","i","c","a","t","e">>

FloatV(thousandths) == [t |-> "float", thousandths |-> thousandths]

RuleRow(id, product_name) == [id |-> id, product_name |-> product_name]

\* the active rules of the certificate type, as stored, by id descending
RulePool ==
    << RuleRow(4, <<"R","e","d"," ","T","e","a"," ","C","u","p"," ","L","i","d">>),
       RuleRow(3, <<"t","e","a"," ","r","e","d"," ","c","u","p"," ","s","e","t">>),
       RuleRow(2, <<"S","a","l","t",";"," ","S","u","g","a","r">>),
       RuleRow(1, <<"c","u","p"," ","r","e","d">>) >>

\* the product names an extraction may yield, in document order
ProductPool ==
    << <<"R","e","d"," ","T","e","a"," ","C","u","p"," ","S","e","t">>,
       <<"S","U","G","A","R">>,
       <<"S","e","a","_","S","a","l","t">>,
       <<"r","e","d"," ","c","u","p","s">>,
       <<"s","u","g","r">>,
       <<"s","h","a","l","l","o","t">>,
       <<"s","h","u","g","r","a">> >>

\* the most product names a document yields in the model
MaxProducts == 2

\* the sublists of pool[i..] with at most n elements, order kept
RECURSIVE Sublists(_, _, _)
Sublists(pool, i, n) ==
    IF i > Len(pool) \/ n = 0 THEN { <<>> }
    ELSE Sublists(pool, i + 1, n)
            \cup { <<pool[i]>> \o l : l \in Sublists(pool, i + 1, n - 1) }

\* the loop building expanded_rules
RECURSIVE ExpandRules(_, _)
ExpandRules(rules, i) ==
    IF i > Len(rules) THEN <<>>
    ELSE
        LET candidates ==
                _normalized_rule_product_candidates(rules[i].product_name)
        IN  (IF candidates = <<>> THEN <<>>
             ELSE << [rule |-> rules[i], candidates |-> candidates] >>)
                \o ExpandRules(rules, i + 1)

\* the (rule, candidate) pairs in the order the nested loops visit them
RECURSIVE CandidatePairs(_, _)
CandidatePairs(expanded, i) ==
    IF i > Len(expanded) THEN <<>>
    ELSE [c \in 1..Len(expanded[i].candidates) |->
            [rule |-> expanded[i].rule,
             rule_product_normalized |-> expanded[i].candidates[c]]]
         \o CandidatePairs(expanded, i + 1)

\* the (rule, candidate, product) triples in the order the nested loops
\* visit them
RECURSIVE Triples(_, _, _)
Triples(pairs, products, i) ==
    IF i > Len(pairs) THEN <<>>
    ELSE [p \in 1..Len(products) |->
            [rule |-> pairs[i].rule,
             rule_product_normalized |-> pairs[i].rule_product_normalized,
             product_name |-> products[p]]]
         \o Triples(pairs, products, i + 1)

\* the index of the first TRUE of a sequence of tests, 0 if none: where a
\* loop with a break stops
FirstIndex(tests) ==
    IF \E i \in 1..Len(tests) : tests[i]
    THEN CHOOSE i \in 1..Len(tests) :
            tests[i] /\ \A j \in 1..(i - 1) : ~tests[j]
    ELSE 0

NoBest == [best_score |-> ZERO, best_rule |-> NoneV,
           best_rule_product_name |-> NoneV]

\* the tier-3 loop: keep the triple with the strictly greatest score
RECURSIVE TokenOverlapLoop(_, _, _)
TokenOverlapLoop(triples, i, best) ==
    IF i > Len(triples) THEN best
    ELSE
        LET score == _token_overlap_score(triples[i].rule_product_normalized,
                                          triples[i].product_name)
        IN  TokenOverlapLoop(triples, i + 1,
                IF Greater(score, best.best_score)
                THEN [best_score |-> score,
                      best_rule |-> triples[i].rule,
                      best_rule_product_name |->
                          StrV(triples[i].rule_product_normalized)]
                ELSE best)

\* the tier-4 loop
RECURSIVE StemOverlapLoop(_, _, _)
StemOverlapLoop(triples, i, best) ==
    IF i > Len(triples) THEN best
    ELSE
        LET score ==
                _stem_based_overlap_score(triples[i].rule_product_normalized,
                                          triples[i].product_name)
        IN  StemOverlapLoop(triples, i + 1,
                IF Greater(score, best.best_score)
                THEN [best_score |-> score,
                      best_rule |-> triples[i].rule,
                      best_rule_product_name |->
                          StrV(triples[i].rule_product_normalized)]
                ELSE best)

\* the tier-5 loop
RECURSIVE FuzzyLoop(_, _, _)
FuzzyLoop(triples, i, best) ==
    IF i > Len(triples) THEN best
    ELSE
        LET score == _fuzzy_similarity(triples[i].rule_product_normalized,
                                       triples[i].product_name)
        IN  FuzzyLoop(triples, i + 1,
                IF Greater(score, ZERO) /\ Greater(score, best.best_score)
                THEN [best_score |-> score,
                      best_rule |-> triples[i].rule,
                      best_rule_product_name |->
                          StrV(triples[i].rule_product_normalized)]
                ELSE best)

\* [self._normalize_text(v) for v in names if self._normalize_text(v)]
RECURSIVE NormalizeProducts(_, _)
NormalizeProducts(names, i) ==
    IF i > Len(names) THEN <<>>
    ELSE (IF _normalize_text(names[i]) # <<>>
          THEN <<_normalize_text(names[i])>> ELSE <<>>)
            \o NormalizeProducts(names, i + 1)

\* what extract_data may return: a failure, a document that is not a
\* certificate, a certificate without a type, a certificate with a type
ExtractionResults ==
    { [success |-> FALSE, document_type |-> NoneV,
       certificate_type |-> NoneV],
      [success |-> TRUE, document_type |-> StrV(<<"I","n","v","o","i","c","e">>),
       certificate_type |-> NoneV],
      [success |-> TRUE, document_type |-> StrV(CERTIFICATE_UPPER),
       certificate_type |-> StrV(<<" ","-">>)],
      [success |-> TRUE, document_type |-> StrV(CERTIFICATE_UPPER),
       certificate_type |-> StrV(<<"H","a","l","a","l">>)] }

\* what _save_document_and_content may return
SaveResults == { [success |-> TRUE], [success |-> FALSE] }

\* str(extraction_result.get("document_type") or "").strip()
document_type(extracted) ==
    IF Truthy(extracted.document_type)
    THEN Strip(PyStr(extracted.document_type)) ELSE <<>>

\* document_type.lower() == "certificate"
is_certificate(extracted) ==
    Lower(document_type(extracted)) = CERTIFICATE

\* self._normalize_text(certificate_type)
normalized_certificate_type(extracted) ==
    IF IsNone(extracted.certificate_type) THEN <<>>
    ELSE _normalize_text(PyStr(extracted.certificate_type))

EXACT == StrV("exact")

CONTAINS == StrV("contains")

TOKEN_OVERLAP == StrV("token_overlap")

STEM_OVERLAP == StrV("stem_overlap")

FUZZY == StrV("fuzzy")

APPROVED == StrV("approved")

REJECTED == StrV("rejected")

ValidateInit ==
    /\ extractData \in ExtractionResults
    /\ save_result \in SaveResults
    /\ success = NoneV
    /\ extracted_product_names \in Sublists(ProductPool, 1, MaxProducts)
    /\ active_rules \in Sublists(RulePool, 1, Len(RulePool))
    /\ vpc = "start"
    /\ normalized_products = <<>>
    /\ expanded_rules = <<>>
    /\ matched_rule = NoneV
    /\ matched_rule_product_name = NoneV
    /\ match_type = NoneV
    /\ match_score = NoneV
    /\ validation_status = NoneV
    /\ field_mappings = EmptyTable
    /\ PipelineIdle
    /\ MapperIdle
    /\ RulesIdle
    /\ LaterIdle

\* the assignments of one match
SetMatch(rule, name, type, score) ==
    /\ matched_rule' = rule
    /\ matched_rule_product_name' = name
    /\ match_type' = type
    /\ match_score' = score

NoMatchChange ==
    UNCHANGED <<matched_rule, matched_rule_product_name, match_type,
                match_score>>

ValidateFrame ==
    UNCHANGED <<extractData, save_result, extracted_product_names,
                active_rules, pipelineVars, mapperVars, rulesVars,
                laterVars>>

\* a validate_data that reports the absence of a usable rule as a failure
NoRulesIsAnError ==
    /\ success' = BoolV(FALSE)
    /\ validation_status' = validation_status

\* the return when there is no usable rule
NoRulesReturn ==
    /\ success' = BoolV(TRUE)
    /\ validation_status' = REJECTED

\* the early returns, then normalized_products, expanded_rules, and the
\* return when there is no usable rule
ValidateStart ==
    /\ vpc = "start"
    /\ IF ~extractData.success \/ ~save_result.success
       THEN /\ success' = BoolV(FALSE)
            /\ vpc' = "done"
            /\ UNCHANGED <<normalized_products, expanded_rules,
                           validation_status>>
       ELSE IF \/ ~is_certificate(extractData)
               \/ normalized_certificate_type(extractData) = <<>>
       THEN /\ success' = BoolV(TRUE)
            /\ validation_status' = REJECTED
            /\ vpc' = "done"
            /\ UNCHANGED <<normalized_products, expanded_rules>>
       ELSE /\ normalized_products' =
                    NormalizeProducts(extracted_product_names, 1)
            /\ expanded_rules' = ExpandRules(active_rules, 1)
            /\ IF active_rules = <<>> \/ expanded_rules' = <<>>
               THEN /\ NoRulesReturn
                    /\ vpc' = "done"
               ELSE /\ UNCHANGED <<success, validation_status>>
                    /\ vpc' = "tier1"
    /\ NoMatchChange
    /\ ValidateFrame

\* the cascade without its first tier
Tier1Skipped ==
    /\ vpc = "tier1"
    /\ vpc' = "tier2"
    /\ NoMatchChange
    /\ UNCHANGED <<normalized_products, expanded_rules, validation_status,
                   success>>
    /\ ValidateFrame

\* Tier 1: exact
Tier1 ==
    /\ vpc = "tier1"
    /\ LET pairs == CandidatePairs(expanded_rules, 1)
           normalized_products_set == Range(normalized_products)
           hit == FirstIndex([i \in 1..Len(pairs) |->
                    pairs[i].rule_product_normalized
                        \in normalized_products_set])
       IN  IF hit # 0
           THEN SetMatch(pairs[hit].rule,
                         StrV(pairs[hit].rule_product_normalized),
                         EXACT, FloatV(1000))
           ELSE NoMatchChange
    /\ vpc' = "tier2"
    /\ UNCHANGED <<normalized_products, expanded_rules, validation_status,
                   success>>
    /\ ValidateFrame

\* Tier 2: contains
Tier2 ==
    /\ vpc = "tier2"
    /\ IF matched_rule = NoneV
       THEN LET triples == Triples(CandidatePairs(expanded_rules, 1),
                                   normalized_products, 1)
                hit == FirstIndex([i \in 1..Len(triples) |->
                            \/ Contains(triples[i].product_name,
                                        triples[i].rule_product_normalized)
                            \/ Contains(triples[i].rule_product_normalized,
                                        triples[i].product_name)])
            IN  IF hit # 0
                THEN SetMatch(triples[hit].rule,
                              StrV(triples[hit].rule_product_normalized),
                              CONTAINS, FloatV(900))
                ELSE NoMatchChange
       ELSE NoMatchChange
    /\ vpc' = "tier3"
    /\ UNCHANGED <<normalized_products, expanded_rules, validation_status,
                   success>>
    /\ ValidateFrame

\* a token-overlap tier that stops at the first triple reaching the
\* threshold
Tier3FirstMatch ==
    /\ vpc = "tier3"
    /\ IF matched_rule = NoneV
       THEN LET triples == Triples(CandidatePairs(expanded_rules, 1),
                                   normalized_products, 1)
                hit == FirstIndex([i \in 1..Len(triples) |->
                            GreaterEq(
                                _token_overlap_score(
                                    triples[i].rule_product_normalized,
                                    triples[i].product_name),
                                TOKEN_OVERLAP_THRESHOLD)])
            IN  IF hit # 0
                THEN SetMatch(triples[hit].rule,
                              StrV(triples[hit].rule_product_normalized),
                              TOKEN_OVERLAP,
                              FloatV(Round3(_token_overlap_score(
                                  triples[hit].rule_product_normalized,
                                  triples[hit].product_name))))
                ELSE NoMatchChange
       ELSE NoMatchChange
    /\ vpc' = "tier4"
    /\ UNCHANGED <<normalized_products, expanded_rules, validation_status,
                   success>>
    /\ ValidateFrame

\* Tier 3: token overlap
Tier3 ==
    /\ vpc = "tier3"
    /\ IF matched_rule = NoneV
       THEN LET best == TokenOverlapLoop(
                            Triples(CandidatePairs(expanded_rules, 1),
                                    normalized_products, 1), 1, NoBest)
            IN  IF /\ best.best_rule # NoneV
                   /\ GreaterEq(best.best_score, TOKEN_OVERLAP_THRESHOLD)
                THEN SetMatch(best.best_rule, best.best_rule_product_name,
                              TOKEN_OVERLAP, FloatV(Round3(best.best_score)))
                ELSE NoMatchChange
       ELSE NoMatchChange
    /\ vpc' = "tier4"
    /\ UNCHANGED <<normalized_products, expanded_rules, validation_status,
                   success>>
    /\ ValidateFrame

\* Tier 4: stem-based token overlap
Tier4 ==
    /\ vpc = "tier4"
    /\ IF matched_rule = NoneV
       THEN LET best == StemOverlapLoop(
                            Triples(CandidatePairs(expanded_rules, 1),
                                    normalized_products, 1), 1, NoBest)
            IN  IF /\ best.best_rule # NoneV
                   /\ GreaterEq(best.best_score, STEM_OVERLAP_THRESHOLD)
                THEN SetMatch(best.best_rule, best.best_rule_product_name,
                              STEM_OVERLAP, FloatV(Round3(best.best_score)))
                ELSE NoMatchChange
       ELSE NoMatchChange
    /\ vpc' = "tier5"
    /\ UNCHANGED <<normalized_products, expanded_rules, validation_status,
                   success>>
    /\ ValidateFrame

\* Tier 5: fuzzy string matching
Tier5 ==
    /\ vpc = "tier5"
    /\ IF matched_rule = NoneV
       THEN LET best == FuzzyLoop(
                            Triples(CandidatePairs(expanded_rules, 1),
                                    normalized_products, 1), 1, NoBest)
            IN  IF best.best_rule # NoneV
                THEN SetMatch(best.best_rule, best.best_rule_product_name,
                              FUZZY, FloatV(Round3(best.best_score)))
                ELSE NoMatchChange
       ELSE NoMatchChange
    /\ vpc' = "finish"
    /\ UNCHANGED <<normalized_products, expanded_rules, validation_status,
                   success>>
    /\ ValidateFrame

\* validation_status and the return
ValidateFinish ==
    /\ vpc = "finish"
    /\ validation_status' =
            IF matched_rule # NoneV THEN APPROVED ELSE REJECTED
    /\ success' = BoolV(TRUE)
    /\ vpc' = "done"
    /\ NoMatchChange
    /\ UNCHANGED <<normalized_products, expanded_rules>>
    /\ ValidateFrame

ValidateNext ==
    \/ ValidateStart
    \/ Tier1
    \/ Tier2
    \/ Tier3
    \/ Tier4
    \/ Tier5
    \/ ValidateFinish

SpecValidate == ValidateInit /\ [][ValidateNext]_vars

-----------------------------------------------------------------------------
(* Properties of the validation cascade, stated over the inputs of the     *)
(* call: the extracted names and the active rules.                         *)

\* the normalized extracted names of the call
InputProducts == NormalizeProducts(extracted_product_names, 1)

\* the (rule, candidate) pairs of the call in iteration order
InputPairs == CandidatePairs(ExpandRules(active_rules, 1), 1)

\* the cascade ran and returned
CascadeReturned == vpc = "done" /\ expanded_rules # <<>>

\* the position in InputPairs of the matched (rule, candidate) pair
MatchedIndex ==
    CHOOSE k \in 1..Len(InputPairs) :
        /\ InputPairs[k].rule = matched_rule
        /\ StrV(InputPairs[k].rule_product_normalized)
                = matched_rule_product_name

ExactPair(pair) ==
    \E p \in Range(InputProducts) : pair.rule_product_normalized = p

ContainsPair(pair) ==
    \E p \in Range(InputProducts) :
        \/ Contains(p, pair.rule_product_normalized)
        \/ Contains(pair.rule_product_normalized, p)

\* the greatest Jaccard index of a pair over the extracted names
PairOverlap(pair) ==
    LET scores == { _token_overlap_score(pair.rule_product_normalized, p) :
                        p \in Range(InputProducts) } \cup {ZERO}
    IN  CHOOSE s \in scores : \A u \in scores : GreaterEq(s, u)

TokenOverlapPair(pair) == GreaterEq(PairOverlap(pair), <<6, 10>>)

ExactPairs == [k \in 1..Len(InputPairs) |-> ExactPair(InputPairs[k])]

ContainsPairs == [k \in 1..Len(InputPairs) |-> ContainsPair(InputPairs[k])]

TokenOverlapPairs ==
    [k \in 1..Len(InputPairs) |-> TokenOverlapPair(InputPairs[k])]

\* the matched pair is the first pair, in iteration order, that qualifies
MatchedIsFirst(qualifies) ==
    /\ qualifies[MatchedIndex]
    /\ \A k \in 1..(MatchedIndex - 1) : ~qualifies[k]

\* C8: whenever some normalized extracted name equals some normalized rule
\* candidate, the result has match_type "exact" and match_score 1.0,
\* whatever other matches exist.
C8_ExactPreempts ==
    (CascadeReturned /\ \E k \in 1..Len(InputPairs) : ExactPair(InputPairs[k]))
        => (match_type = EXACT /\ match_score = FloatV(1000))

\* an exact match returned although a rule earlier in iteration order
\* matches an extracted name by token overlap
C8_Witness ==
    /\ CascadeReturned
    /\ match_type = EXACT
    /\ \E k \in 1..(MatchedIndex - 1) : TokenOverlapPair(InputPairs[k])

LengthAdaptiveThreshold(a, b) ==
    IF Len(a) <= 4 \/ Len(b) <= 4 THEN <<70, 100>>
    ELSE IF Len(a) <= 10 \/ Len(b) <= 10 THEN <<75, 100>>
    ELSE <<80, 100>>

\* the (candidate, extracted name) combinations of the call
Combinations ==
    { <<InputPairs[k].rule_product_normalized, p>> :
        k \in 1..Len(InputPairs), p \in Range(InputProducts) }

Eligible(c) == GreaterEq(ratio(c[1], c[2]), LengthAdaptiveThreshold(c[1], c[2]))

EarlierTiers == {EXACT, CONTAINS, TOKEN_OVERLAP, STEM_OVERLAP}

-----------------------------------------------------------------------------
(* validate_data: "no rule" and "no match" are outcomes, not errors.       *)

\* the call got as far as looking the rules up
ReachedRules ==
    /\ extractData.success
    /\ save_result.success
    /\ is_certificate(extractData)
    /\ normalized_certificate_type(extractData) # <<>>

StemOverlapPair(pair) ==
    \E p \in Range(InputProducts) :
        GreaterEq(_stem_based_overlap_score(pair.rule_product_normalized, p),
                  <<5, 10>>)

\* some tier of the cascade has a qualifying (candidate, name) combination
SomeTierMatches ==
    \/ \E k \in 1..Len(InputPairs) :
            \/ ExactPair(InputPairs[k])
            \/ ContainsPair(InputPairs[k])
            \/ TokenOverlapPair(InputPairs[k])
            \/ StemOverlapPair(InputPairs[k])
    \/ \E c \in Combinations : Eligible(c)

\* C11: when no active rule exists for the certificate type, or no tier of
\* the cascade matches, validate_data returns success=true with
\* validation_status "rejected" and matched_rule null; validation_status
\* is "approved" if and only if some tier produced a match.
C11_NoRuleNoMatchAreOutcomes ==
    vpc = "done" =>
        /\ (ReachedRules /\ (InputPairs = <<>> \/ ~SomeTierMatches)) =>
            /\ success = BoolV(TRUE)
            /\ validation_status = REJECTED
            /\ matched_rule = NoneV
        /\ validation_status = APPROVED <=>
            (ReachedRules /\ InputPairs # <<>> /\ SomeTierMatches)
        /\ validation_status = APPROVED <=> matched_rule # NoneV

\* the cascade ran over a rule and an extracted name and no tier matched
C11_Witness ==
    /\ vpc = "done"
    /\ ReachedRules
    /\ InputPairs # <<>>
    /\ InputProducts # <<>>
    /\ ~SomeTierMatches
    /\ success = BoolV(TRUE)


-----------------------------------------------------------------------------
(* universal_extractor.py: UniversalPDFExtractor.  The file at pdf_path is *)
(* a record: whether it exists, whether PdfReader and pdf2image can read   *)
(* it, the text of each page, the text tesseract reads off each page       *)
(* image, and the AcroForm fields; ocr_installed stands for                *)
(* PDF2IMAGE_AVAILABLE and PYTESSERACT_AVAILABLE.  page_count, tokens_used *)
(* and model of the result are left out.                                   *)

MAX_PAGES == 50

\* str(i) for the page numbers of the model
PageNumber == <<"1", "2", "3">>

\* f"--- PAGE {i} ---\n{text}\n"
PageBlock(i, text) ==
    <<"-","-","-"," ","P","A","G","E"," ", PageNumber[i], " ","-","-","-","\n">>
        \o text \o <<"\n">>

\* all_text: one block per page whose text is not blank
RECURSIVE PageBlocks(_, _)
PageBlocks(texts, i) ==
    IF i > Len(texts) THEN <<>>
    ELSE (IF Strip(texts[i]) # <<>> THEN <<PageBlock(i, texts[i])>> ELSE <<>>)
            \o PageBlocks(texts, i + 1)

\* "\n".join(all_text)
RECURSIVE JoinLines(_, _)
JoinLines(all_text, i) ==
    IF i > Len(all_text) THEN <<>>
    ELSE IF i = Len(all_text) THEN all_text[i]
    ELSE all_text[i] \o <<"\n">> \o JoinLines(all_text, i + 1)

_extract_text_directly(file) ==
    IF ~file.readable THEN <<>>
    ELSE JoinLines(PageBlocks(
            SubSeq(file.pages, 1, Min(Len(file.pages), MAX_PAGES)), 1), 1)

_convert_pdf_to_images(file) ==
    IF ~file.ocr_installed \/ ~file.readable THEN <<>>
    ELSE SubSeq(file.scans, 1, Min(Len(file.scans), MAX_PAGES))

_extract_text_from_images(file, images) ==
    IF ~file.ocr_installed THEN <<>>
    ELSE JoinLines(PageBlocks(images, 1), 1)

\* the (ocr_text, page count) pair run_ocr returns
run_ocr(file) ==
    IF ~file.ocr_installed THEN << <<>>, 0 >>
    ELSE LET images == _convert_pdf_to_images(file)
         IN  IF images = <<>> THEN << <<>>, 0 >>
             ELSE <<_extract_text_from_images(file, images), Len(images)>>

\* one of the four dicts of _extract_form_fields: the fields of the kinds
\* given, each with the value the loop stores for it
FieldDict(fields, kinds) ==
    LET chosen == { i \in 1..Len(fields) : fields[i].kind \in kinds }
    IN  DictV([n \in { fields[i].name : i \in chosen } |->
            LET f == fields[CHOOSE i \in chosen : fields[i].name = n]
            IN  IF f.kind = "checkbox"
                THEN BoolV(Truthy(f.V) /\ f.V # StrV(<<"O","f","f">>))
                ELSE IF Truthy(f.V) THEN f.V ELSE StrV(<<>>)])

\* kind: "text" (/Tx), "dropdown" (/Ch), "radio" (/Btn with flag 0x8000),
\* "checkbox" (/Btn without it), "other"
_extract_form_fields(file) ==
    IF ~file.readable \/ file.fields = <<>> THEN EmptyPyDict
    ELSE DictV([text_fields |-> FieldDict(file.fields, {"text"}),
                checkboxes |-> FieldDict(file.fields, {"checkbox"}),
                radio_buttons |-> FieldDict(file.fields, {"radio"}),
                dropdowns |-> FieldDict(file.fields, {"dropdown"})])

\* a text taken whenever it is longer than 50 characters, blanks included
LongerThan50(text) == Len(text) > 50

\* direct_text and len(direct_text.strip()) > 50
UsePypdf(text) == text # <<>> /\ Len(Strip(text)) > 50

\* an LLM failure handed to the caller whatever the form fields
AiFailurePropagates(fields, ai_result) == ai_result

\* the return when ai_result has no success
AiFailureReturn(fields, ai_result) ==
    IF Truthy(fields)
    THEN [success |-> TRUE,
          formatted_data |-> fields,
          document_type |-> "Unknown",
          extraction_method |-> "form_fields_only"]
    ELSE ai_result

\* extracted_data and document_type out of ai_result["data"]
AiSuccessReturn(ai_data) ==
    IF IsDict(ai_data)
    THEN LET sections == IF "sections" \in DOMAIN ai_data.d
                         THEN ai_data.d["sections"] ELSE EmptyPyDict
             kept == (DOMAIN ai_data.d) \ {"document_type", "success", "error"}
         IN  [success |-> TRUE,
              formatted_data |->
                  IF ~Truthy(sections) /\ Truthy(ai_data)
                  THEN DictV([k \in kept |-> ai_data.d[k]])
                  ELSE sections,
              document_type |->
                  IF "document_type" \in DOMAIN ai_data.d
                  THEN ai_data.d["document_type"]
                  ELSE StrV(<<"D","o","c","u","m","e","n","t">>),
              extraction_method |-> "universal_ai"]
    ELSE [success |-> TRUE,
          formatted_data |-> IF Truthy(ai_data) THEN ai_data ELSE EmptyPyDict,
          document_type |-> StrV(<<"D","o","c","u","m","e","n","t">>),
          extraction_method |-> "universal_ai"]

Repeat(c, n) == [i \in 1..n |-> c]

\* page texts: blank, 35 characters, 36 characters, 17 characters with
\* blanks around them
PageTexts ==
    { <<" ">>, Repeat("x", 35), Repeat("x", 36),
      <<" ">> \o Repeat("y", 17) \o <<" ", " ">> }

PageLists == { <<>> } \cup { <<t>> : t \in PageTexts }
                \cup { <<t, u>> : t, u \in {Repeat("x", 35), <<" ">>} }

ScanLists == { <<>>, <<Repeat("s", 60)>>, << <<" ">>, Repeat("s", 5) >> }

FormFieldLists ==
    { <<>>,
      << [name |-> "Name", kind |-> "text", V |-> StrV(<<"A","C","M","E">>)],
         [name |-> "Agree", kind |-> "checkbox", V |-> StrV(<<"O","f","f">>)] >>,
      << [name |-> "Signature", kind |-> "other", V |-> NoneV] >> }

UniversalFiles ==
    { [exists |-> FALSE, readable |-> FALSE, ocr_installed |-> TRUE,
       pages |-> <<>>, scans |-> <<>>, fields |-> <<>>],
      [exists |-> TRUE, readable |-> FALSE, ocr_installed |-> TRUE,
       pages |-> <<>>, scans |-> <<>>, fields |-> <<>>] }
    \cup { [exists |-> TRUE, readable |-> TRUE, ocr_installed |-> o,
            pages |-> p, scans |-> s, fields |-> f] :
            o \in BOOLEAN, p \in PageLists, s \in ScanLists,
            f \in FormFieldLists }

AiReplies ==
    { [success |-> FALSE, error |-> "Extraction failed"],
      [success |-> TRUE,
       data |-> DictV([document_type |-> StrV(CERTIFICATE_UPPER),
                       sections |-> DictV([holder |-> StrV(<<"A","C","M","E">>)])])],
      [success |-> TRUE,
       data |-> DictV([document_type |-> StrV(CERTIFICATE_UPPER),
                       holder |-> StrV(<<"A","C","M","E">>)])],
      [success |-> TRUE, data |-> ListV(<< >>)] }

UniversalInit ==
    /\ pdf_path \in UniversalFiles
    /\ openai_service \in {"ok", "raises"}
    /\ ai_reply \in AiReplies
    /\ upc = "start"
    /\ pypdf_task = NotYet
    /\ ocr_task = NotYet
    /\ direct_text = NoneV
    /\ full_text = NoneV
    /\ form_fields = NoneV
    /\ extract_result = NotYet
    /\ task_log = <<>>
    /\ field_mappings = EmptyTable
    /\ PipelineIdle
    /\ MapperIdle
    /\ RulesIdle
    /\ ValidateIdle
    /\ OrganizerIdle
    /\ DetectorIdle
    /\ FormatterIdle
    /\ FinalIdle

outsideUniversal ==
    <<pipelineVars, mapperVars, rulesVars, validateVars, organizerVars,
      detectorVars, formatterVars, finalVars>>

UniversalInputs == <<pdf_path, openai_service, ai_reply>>

\* up to the two run_in_executor calls; the returns and the except before
\* them
Launch ==
    /\ upc = "start"
    /\ IF openai_service = "raises"
       THEN /\ extract_result' =
                    [success |-> FALSE, error |-> "PDF extraction failed"]
            /\ upc' = "returned"
            /\ UNCHANGED <<form_fields, pypdf_task, ocr_task, task_log>>
       ELSE IF ~pdf_path.exists
       THEN /\ extract_result' =
                    [success |-> FALSE, error |-> "PDF file not found"]
            /\ upc' = "returned"
            /\ UNCHANGED <<form_fields, pypdf_task, ocr_task, task_log>>
       ELSE /\ form_fields' = _extract_form_fields(pdf_path)
            /\ pypdf_task' = [state |-> "queued"]
            /\ ocr_task' = [state |-> "queued"]
            /\ task_log' = <<"launch_pypdf", "launch_ocr">>
            /\ upc' = "await_pypdf"
            /\ UNCHANGED extract_result
    /\ UNCHANGED <<direct_text, full_text, UniversalInputs, outsideUniversal>>

\* the executor runs run_pypdf
RunPypdf ==
    /\ pypdf_task # NotYet
    /\ pypdf_task.state = "queued"
    /\ pypdf_task' = [state |-> "done",
                      result |-> _extract_text_directly(pdf_path)]
    /\ UNCHANGED <<upc, ocr_task, direct_text, full_text, form_fields,
                   extract_result, task_log, UniversalInputs,
                   outsideUniversal>>

\* the executor starts run_ocr
OcrStart ==
    /\ ocr_task # NotYet
    /\ ocr_task.state = "queued"
    /\ ocr_task' = [state |-> "running"]
    /\ UNCHANGED <<upc, pypdf_task, direct_text, full_text, form_fields,
                   extract_result, task_log, UniversalInputs,
                   outsideUniversal>>

\* run_ocr returns
OcrFinish ==
    /\ ocr_task # NotYet
    /\ ocr_task.state = "running"
    /\ ocr_task' = [state |-> "done", result |-> run_ocr(pdf_path)]
    /\ UNCHANGED <<upc, pypdf_task, direct_text, full_text, form_fields,
                   extract_result, task_log, UniversalInputs,
                   outsideUniversal>>

\* direct_text = await pypdf_task, and the selection
AwaitPypdf ==
    /\ upc = "await_pypdf"
    /\ pypdf_task.state = "done"
    /\ direct_text' = StrV(pypdf_task.result)
    /\ task_log' = Append(task_log, "await_pypdf")
    /\ IF UsePypdf(pypdf_task.result)
       THEN /\ full_text' = StrV(pypdf_task.result)
            /\ upc' = "structure"
       ELSE /\ full_text' = full_text
            /\ upc' = "await_ocr"
    /\ UNCHANGED <<pypdf_task, ocr_task, form_fields, extract_result,
                   UniversalInputs, outsideUniversal>>

\* ocr_result = await ocr_task
AwaitOcr ==
    /\ upc = "await_ocr"
    /\ ocr_task.state = "done"
    /\ task_log' = Append(task_log, "await_ocr")
    /\ full_text' = StrV(ocr_task.result[1])
    /\ upc' = "structure"
    /\ UNCHANGED <<pypdf_task, ocr_task, direct_text, form_fields,
                   extract_result, UniversalInputs, outsideUniversal>>

\* from the text selected to the return: the LLM call and what is made of
\* its result
Structure ==
    /\ upc = "structure"
    /\ IF ~Truthy(full_text) /\ ~Truthy(form_fields)
       THEN /\ extract_result' =
                    [success |-> FALSE, error |-> "No text could be extracted"]
            /\ task_log' = task_log
       ELSE /\ task_log' = Append(task_log, "extract_universal_data")
            /\ extract_result' =
                    IF ~ai_reply.success
                    THEN AiFailureReturn(form_fields, ai_reply)
                    ELSE AiSuccessReturn(ai_reply.data)
    /\ upc' = "returned"
    /\ UNCHANGED <<pypdf_task, ocr_task, direct_text, full_text, form_fields,
                   UniversalInputs, outsideUniversal>>

UniversalNext ==
    \/ Launch
    \/ RunPypdf
    \/ OcrStart
    \/ OcrFinish
    \/ AwaitPypdf
    \/ AwaitOcr
    \/ Structure

SpecUniversal == UniversalInit /\ [][UniversalNext]_vars


-----------------------------------------------------------------------------
(* Properties of extract_pdf, stated over the file and the LLM reply.      *)

\* the text selection of the call has been made
TextSelected == upc \in {"structure", "returned"} /\ full_text # NoneV

InLog(event) == \E i \in 1..Len(task_log) : task_log[i] = event

\* both futures are created before either is awaited, and run_pypdf's is
\* awaited first
LaunchesBeforeAwaits ==
    \E n \in 0..5 :
        task_log = SubSeq(<<"launch_pypdf", "launch_ocr", "await_pypdf",
                            "await_ocr", "extract_universal_data">>, 1, n)
        \/ task_log = <<"launch_pypdf", "launch_ocr", "await_pypdf",
                        "extract_universal_data">>

\* C12 as stated: both tasks are launched before either is awaited, the
\* direct-text task is awaited first, and the direct text is used if and
\* only if its length exceeds 50 characters, in which case the OCR task is
\* never awaited; otherwise the OCR text is used.
C12_DirectIffLongerThan50 ==
    /\ LaunchesBeforeAwaits
    /\ TextSelected =>
        IF Len(_extract_text_directly(pdf_path)) > 50
        THEN /\ full_text = StrV(_extract_text_directly(pdf_path))
             /\ ~InLog("await_ocr")
        ELSE /\ full_text = StrV(run_ocr(pdf_path)[1])
             /\ InLog("await_ocr")

\* C12 (amended): both tasks are launched before either is awaited, the
\* direct-text task is awaited first, and the direct text is used if and
\* only if its length without leading and trailing whitespace exceeds 50
\* characters, in which case the OCR task is never awaited; otherwise the
\* OCR task is awaited and its text used.  The text chosen is a function
\* of the file alone, whichever task finishes first.
C12_DirectIffStrippedOver50 ==
    /\ LaunchesBeforeAwaits
    /\ TextSelected =>
        IF Len(Strip(_extract_text_directly(pdf_path))) > 50
        THEN /\ full_text = StrV(_extract_text_directly(pdf_path))
             /\ ~InLog("await_ocr")
        ELSE /\ full_text = StrV(run_ocr(pdf_path)[1])
             /\ InLog("await_ocr")

\* the direct text was used although run_ocr had finished before run_pypdf
\* was awaited, with a text of its own
C12_Witness ==
    /\ upc = "returned"
    /\ InLog("await_pypdf")
    /\ full_text = direct_text
    /\ ~InLog("await_ocr")
    /\ ocr_task.state = "done"
    /\ ocr_task.result[1] # <<>>
    /\ pdf_path.pages # <<>>

\* C13: when extract_pdf returns after using the direct text, the OCR task
\* has completed or has been cancelled.
C13_AbandonedOcrSettled ==
    (upc = "returned" /\ InLog("await_pypdf") /\ ~InLog("await_ocr"))
        => ocr_task.state \in {"done", "cancelled"}

\* C14: when extract_universal_data fails and form fields were extracted,
\* the result is success=true with the raw form fields as formatted_data
\* and extraction_method "form_fields_only"; when it fails and there are no
\* form fields the result is a failure with an error.
C14_LlmFailureFallsBackToFormFields ==
    (upc = "returned" /\ InLog("extract_universal_data") /\ ~ai_reply.success)
        => IF _extract_form_fields(pdf_path) # EmptyPyDict
           THEN /\ extract_result.success
                /\ extract_result.formatted_data
                        = _extract_form_fields(pdf_path)
                /\ extract_result.extraction_method = "form_fields_only"
           ELSE /\ ~extract_result.success
                /\ "error" \in DOMAIN extract_result

\* the LLM failed on a file with form fields and the fields came back
C14_Witness ==
    /\ upc = "returned"
    /\ InLog("extract_universal_data")
    /\ ~ai_reply.success
    /\ _extract_form_fields(pdf_path) # EmptyPyDict
    /\ extract_result.success


-----------------------------------------------------------------------------
(* acord_organizer.py: AcordOrganizer.organize as a call of its own, with  *)
(* the chat_completion calls counted.                                      *)

\* the raw_fields an organize call may be given
OrganizerInputs ==
    { EmptyDict,
      << <<Custom_X, NoneV>> >>,
      << <<Custom_X, StrV(<<"h","e","l","l","o">>)>> >>,
      << <<Custom_X, StrV(<<"h","e","l","l","o">>)>>,
         <<Custom_Y, StrV(<<"n","o","t","e">>)>> >>,
      << <<NamedInsured_FullName_A, StrV(<<"A","C","M","E">>)>> >> }

OrganizerInit ==
    /\ orgFields \in OrganizerInputs
    /\ orgLlm \in LlmBehaviours
    /\ opc = "start"
    /\ llm_calls = 0
    /\ org_result = NotYet
    /\ field_mappings = SampleTable
    /\ PipelineIdle
    /\ MapperIdle
    /\ RulesIdle
    /\ ValidateIdle
    /\ UniversalIdle
    /\ DetectorIdle
    /\ FormatterIdle
    /\ FinalIdle

outsideOrganizer ==
    <<pipelineVars, mapperVars, rulesVars, validateVars, universalVars,
      detectorVars, formatterVars, finalVars>>

\* the return for no fields, or the prompt
OrganizeStart ==
    /\ opc = "start"
    /\ IF Len(orgFields) = 0
       THEN /\ org_result' = organize(orgFields, orgLlm)
            /\ opc' = "returned"
       ELSE /\ org_result' = org_result
            /\ opc' = "chat_completion"
    /\ UNCHANGED <<orgFields, orgLlm, llm_calls, outsideOrganizer>>

\* self.openai_service.chat_completion(...)
ChatCompletion ==
    /\ opc = "chat_completion"
    /\ llm_calls' = llm_calls + 1
    /\ opc' = "response"
    /\ UNCHANGED <<orgFields, orgLlm, org_result, outsideOrganizer>>

\* what organize makes of the response, or of the exception
OrganizeReturn ==
    /\ opc = "response"
    /\ org_result' = organize(orgFields, orgLlm)
    /\ opc' = "returned"
    /\ UNCHANGED <<orgFields, orgLlm, llm_calls, outsideOrganizer>>

OrganizerNext ==
    \/ OrganizeStart
    \/ ChatCompletion
    \/ OrganizeReturn

SpecOrganizer == OrganizerInit /\ [][OrganizerNext]_vars

\* C15: organize called with an empty field set returns success=true with
\* empty organized data and makes no LLM call.
C15_EmptyInputShortCircuits ==
    (opc = "returned" /\ orgFields = EmptyDict)
        => /\ org_result.success
           /\ org_result.organized_data = EmptyPyDict
           /\ llm_calls = 0

\* the texts of the model that are JSON objects
JsonObjects ==
    { JsonDocuments[i][1] : i \in { k \in 1..Len(JsonDocuments) :
                                        IsDict(JsonDocuments[k][2]) } }

\* no part of the content is a JSON object
NoJsonObject(content) ==
    \/ IsNone(content)
    \/ \A i \in 1..Len(content.s) : \A j \in i..Len(content.s) :
            SubSeq(content.s, i, j) \notin JsonObjects

\* the LLM call raised, returned success=false, or returned a content from
\* which no JSON object can be recovered
LlmUnusable ==
    \/ orgLlm.kind \in {"api_error", "raises"}
    \/ orgLlm.kind = "content" /\ NoJsonObject(orgLlm.content)

\* C16: a call of organize makes exactly one LLM attempt, and an LLM-call
\* exception, an LLM result with success=false, or a response from which
\* no JSON object can be recovered each give success=false with an error
\* and empty organized data.
C16_OneAttemptAndFailuresSurface ==
    (opc = "returned" /\ orgFields # EmptyDict)
        => /\ llm_calls = 1
           /\ LlmUnusable =>
                /\ ~org_result.success
                /\ "error" \in DOMAIN org_result
                /\ org_result.organized_data = EmptyPyDict


-----------------------------------------------------------------------------
(* detect_acord_form on two documents, the fields of the second among the  *)
(* fields of the first.                                                    *)

\* "namedinsured_producer_"
DET_LOWER ==
    <<"n","a","m","e","d","i","n","s","u","r","e","d","_","p","r","o","d",
      "u","c","e","r","_">>

\* "Policy_GeneralLiability_Policy_WorkersCompensation"
DET_GL_WC ==
    <<"P","o","l","i","c","y","_","G","e","n","e","r","a","l","L","i","a",
      "b","i","l","i","t","y","_","P","o","l","i","c","y","_","W","o","r",
      "k","e","r","s","C","o","m","p","e","n","s","a","t","i","o","n">>

\* "policy_automobileliability_vehicle_"
DET_AUTO ==
    <<"p","o","l","i","c","y","_","a","u","t","o","m","o","b","i","l","e",
      "l","i","a","b","i","l","i","t","y","_","v","e","h","i","c","l","e",
      "_">>

\* "Insurer_FullName_Insurer_NAICCode"
DET_INSURER ==
    <<"I","n","s","u","r","e","r","_","F","u","l","l","N","a","m","e","_",
      "I","n","s","u","r","e","r","_","N","A","I","C","C","o","d","e">>

\* "Policy_ExcessLiability_GeneralAggregateLimitAmount_EachOccurrenceLimitAmount"
DET_LIMITS ==
    <<"P","o","l","i","c","y","_","E","x","c","e","s","s","L","i","a","b",
      "i","l","i","t","y","_","G","e","n","e","r","a","l","A","g","g","r",
      "e","g","a","t","e","L","i","m","i","t","A","m","o","u","n","t","_",
      "E","a","c","h","O","c","c","u","r","r","e","n","c","e","L","i","m",
      "i","t","A","m","o","u","n","t">>

\* field names a form may carry: between them they hold every pattern of
\* ACORD_FIELD_PATTERNS, two of them hold the same pattern, one holds none
DetectorFieldPool ==
    << [name |-> NamedInsured_FullName_A],
       [name |-> DET_LOWER],
       [name |-> CertificateHolder_FullName_A],
       [name |-> DET_GL_WC],
       [name |-> DET_AUTO],
       [name |-> DET_INSURER],
       [name |-> DET_LIMITS],
       [name |-> Custom_X] >>

FillableDoc(fields) == [exists |-> TRUE, readable |-> TRUE, fields |-> fields]

\* the sublists of a list, order kept
SublistsOf(list) == Sublists(list, 1, Len(list))

DetectorInit ==
    /\ \/ /\ docA \in { FillableDoc(f) : f \in SublistsOf(DetectorFieldPool) }
          /\ docB \in { FillableDoc(f) : f \in SublistsOf(docA.fields) }
       \/ /\ docA \in { [exists |-> FALSE, readable |-> FALSE, fields |-> <<>>],
                        [exists |-> TRUE, readable |-> FALSE, fields |-> <<>>] }
          /\ docB = docA
    /\ detA = NotYet
    /\ detB = NotYet
    /\ field_mappings = EmptyTable
    /\ PipelineIdle
    /\ MapperIdle
    /\ RulesIdle
    /\ ValidateIdle
    /\ UniversalIdle
    /\ OrganizerIdle
    /\ FormatterIdle
    /\ FinalIdle

outsideDetector ==
    <<pipelineVars, mapperVars, rulesVars, validateVars, universalVars,
      organizerVars, formatterVars, finalVars>>

DetectA ==
    /\ detA = NotYet
    /\ detA' = detect_acord_form(docA)
    /\ UNCHANGED <<docA, docB, detB, outsideDetector>>

DetectB ==
    /\ detB = NotYet
    /\ detB' = detect_acord_form(docB)
    /\ UNCHANGED <<docA, docB, detA, outsideDetector>>

DetectorNext ==
    \/ DetectA
    \/ DetectB

SpecDetector == DetectorInit /\ [][DetectorNext]_vars

\* the patterns that occur, whatever the case, in a field name of the
\* document
PatternsIn(doc) ==
    { k \in 1..Len(ACORD_FIELD_PATTERNS) :
        \E i \in 1..Len(doc.fields) :
            Contains(Lower(doc.fields[i].name), Lower(ACORD_FIELD_PATTERNS[k])) }

\* the confidence the thresholds give a count
ConfidenceOf(count) ==
    IF count >= 8 THEN "high"
    ELSE IF count >= 5 THEN "medium"
    ELSE IF count >= 3 THEN "low"
    ELSE "none"

\* C17: for a fillable PDF, acord_pattern_matches is the number of the 13
\* patterns that occur in some field name, each counted once, so between
\* 0 and 13; confidence is high from 8, medium from 5 to 7, low for 3 and
\* 4, none below 3; is_acord is true if and only if the count is at
\* least 3.
C17_CountAndThresholds ==
    (detA # NotYet /\ detA.is_fillable) =>
        /\ Len(ACORD_FIELD_PATTERNS) = 13
        /\ detA.acord_pattern_matches = Cardinality(PatternsIn(docA))
        /\ detA.acord_pattern_matches \in 0..13
        /\ detA.confidence = ConfidenceOf(Cardinality(PatternsIn(docA)))
        /\ detA.is_acord <=> (Cardinality(PatternsIn(docA)) >= 3)

\* a detection where two field names hold the same pattern
C17_Witness ==
    /\ detA # NotYet
    /\ detA.is_fillable
    /\ detA.confidence = "low"
    /\ \E i, j \in 1..Len(docA.fields) :
            /\ i # j
            /\ PatternsIn(FillableDoc(<<docA.fields[i]>>))
                \cap PatternsIn(FillableDoc(<<docA.fields[j]>>)) # {}

\* C18: for a missing, unreadable or field-less PDF the result has
\* is_fillable=false, and every result with is_fillable=false has
\* is_acord=false, confidence "none", field_count 0 and
\* acord_pattern_matches 0.
C18_FailsClosed ==
    detA # NotYet =>
        /\ (~docA.exists \/ ~docA.readable \/ docA.fields = <<>>)
                => ~detA.is_fillable
        /\ ~detA.is_fillable =>
                /\ ~detA.is_acord
                /\ detA.confidence = "none"
                /\ detA.field_count = 0
                /\ detA.acord_pattern_matches = 0

\* the detection of a PDF that exists and cannot be read
C18_Witness ==
    /\ detA # NotYet
    /\ docA.exists
    /\ ~docA.readable
    /\ ~detA.is_fillable

ConfidenceTier == [none |-> 0, low |-> 1, medium |-> 2, high |-> 3]

FieldNameSet(doc) == { doc.fields[i].name : i \in 1..Len(doc.fields) }

\* C19: if the field names of document A are a superset of those of
\* document B, A's acord_pattern_matches is at least B's and A's
\* confidence tier is not lower than B's.
C19_Monotone ==
    (detA # NotYet /\ detB # NotYet
        /\ FieldNameSet(docB) \subseteq FieldNameSet(docA))
        => /\ detA.acord_pattern_matches >= detB.acord_pattern_matches
           /\ ConfidenceTier[detA.confidence] >= ConfidenceTier[detB.confidence]

\* document A has a field more than B, with a pattern that B also holds
C19_Witness ==
    /\ detA # NotYet
    /\ detB # NotYet
    /\ FieldNameSet(docB) # {}
    /\ FieldNameSet(docB) # FieldNameSet(docA)
    /\ FieldNameSet(docB) \subseteq FieldNameSet(docA)
    /\ \E n \in FieldNameSet(docA) \ FieldNameSet(docB) :
            PatternsIn(FillableDoc(<<[name |-> n]>>)) \cap PatternsIn(docB) # {}
    /\ ConfidenceTier[detA.confidence] > ConfidenceTier[detB.confidence]


-----------------------------------------------------------------------------
(* format_checkbox on the values an indicator may hold.                    *)

\* the tokens read as checked, in lower, upper and capitalised form
CheckboxTokenStrings ==
    {
        <<"y","e","s">>,
        <<"Y","E","S">>,
        <<"Y","e","s">>,
        <<"y">>,
        <<"Y">>,
        <<"t","r","u","e">>,
        <<"T","R","U","E">>,
        <<"T","r","u","e">>,
        <<"1">>,
        <<"/","1">>,
        <<"/","y","e","s">>,
        <<"/","Y","E","S">>,
        <<"x">>,
        <<"X">>,
        <<"c","h","e","c","k","e","d">>,
        <<"C","H","E","C","K","E","D">>,
        <<"C","h","e","c","k","e","d">>
    }

\* tokens with whitespace around them
CheckboxPaddedStrings ==
    {
        <<" ","y","e","s">>,
        <<"Y","E","S"," ">>,
        <<" ","Y","e","s"," ">>,
        <<"\t","x","\n">>,
        <<" ","/","1">>,
        <<" ","C","h","e","c","k","e","d"," ">>,
        <<"1"," ">>,
        <<" ","T","R","U","E">>
    }

\* strings that are no token
CheckboxOtherStrings ==
    {
        <<>>,
        <<" "," ">>,
        <<"n","o">>,
        <<"N","o">>,
        <<"o","f","f">>,
        <<"U","n","c","h","e","c","k","e","d">>,
        <<"0">>,
        <<"f","a","l","s","e">>,
        <<"n">>,
        <<"o","n">>,
        <<"y","e","s","s">>,
        <<"y","e"," ","s">>,
        <<"y",".">>,
        <<"1","1">>,
        <<"/">>,
        <<"/","0">>,
        <<"/","y">>,
        <<"x","x">>,
        <<"c","h","e","c","k">>,
        <<"t","r","u","e","1">>,
        <<"Y"," ","N">>
    }

CheckboxValues ==
    { NoneV, BoolV(TRUE), BoolV(FALSE) }
        \cup { StrV(s) : s \in CheckboxTokenStrings \cup CheckboxPaddedStrings
                                \cup CheckboxOtherStrings }
        \cup { FloatV(1000), FloatV(0), ListV(<<>>), ListV(<<StrV(YES)>>),
               EmptyPyDict }

FormatterInit ==
    /\ cbValue \in CheckboxValues
    /\ cbResult = NotYet
    /\ cbMapped = NotYet
    /\ field_mappings = EmptyTable
    /\ PipelineIdle
    /\ MapperIdle
    /\ RulesIdle
    /\ ValidateIdle
    /\ UniversalIdle
    /\ OrganizerIdle
    /\ DetectorIdle
    /\ FinalIdle

outsideFormatter ==
    <<pipelineVars, mapperVars, rulesVars, validateVars, universalVars,
      organizerVars, detectorVars, finalVars>>

FormatCheckbox ==
    /\ cbResult = NotYet
    /\ cbResult' = format_checkbox(cbValue)
    /\ UNCHANGED <<cbValue, cbMapped, outsideFormatter>>

\* the value as the Direct Mapper's checkbox pass leaves it, formatted
NormalizeThenFormat ==
    /\ cbMapped = NotYet
    /\ cbMapped' = format_checkbox(normalize_value(cbValue))
    /\ UNCHANGED <<cbValue, cbResult, outsideFormatter>>

FormatterNext ==
    \/ FormatCheckbox
    \/ NormalizeThenFormat

SpecFormatter == FormatterInit /\ [][FormatterNext]_vars

\* the tokens the contract names
CheckedTokens ==
    { <<"y","e","s">>, <<"y">>, <<"t","r","u","e">>, <<"1">>, <<"/","1">>,
      <<"/","y","e","s">>, <<"x">>, <<"c","h","e","c","k","e","d">> }

\* s equals one of the tokens when case is ignored
EqualsTokenIgnoringCase(s) == \E t \in CheckedTokens : Lower(s) = Lower(t)

\* the output is "Yes" or "No"; null gives "No"; a boolean gives "Yes" for
\* true and "No" for false; a value that is no null, boolean or string
\* gives "No"
CheckboxClosedOutsideStrings ==
    /\ cbResult \in {StrV(YES), StrV(NO)}
    /\ IsNone(cbValue) => cbResult = StrV(NO)
    /\ IsBool(cbValue) => cbResult = StrV(IF cbValue.b THEN YES ELSE NO)
    /\ (~IsNone(cbValue) /\ ~IsBool(cbValue) /\ ~IsStr(cbValue))
            => cbResult = StrV(NO)

\* C20 as stated: format_checkbox gives "Yes" or "No" for every input;
\* null gives "No", a boolean "Yes"/"No", a string equal to one of the
\* tokens when case is ignored gives "Yes", and anything else gives "No".
C20_CheckboxClosedExactTokens ==
    cbResult # NotYet =>
        /\ CheckboxClosedOutsideStrings
        /\ IsStr(cbValue) =>
                (cbResult = StrV(YES) <=> EqualsTokenIgnoringCase(cbValue.s))

\* C20 amended: as above, with the string compared after its leading and
\* trailing whitespace is removed.
C20_CheckboxClosedStrippedTokens ==
    cbResult # NotYet =>
        /\ CheckboxClosedOutsideStrings
        /\ IsStr(cbValue) =>
                (cbResult = StrV(YES)
                    <=> EqualsTokenIgnoringCase(Strip(cbValue.s)))

\* a token in capitals with whitespace around it, formatted
C20_Witness ==
    /\ cbResult = StrV(YES)
    /\ IsStr(cbValue)
    /\ Strip(cbValue.s) # cbValue.s
    /\ Lower(cbValue.s) # cbValue.s


-----------------------------------------------------------------------------
(* The tab of the formatted output that holds the remaining data.          *)

\* C21: the formatter passes the organizer's data through verbatim: the
\* other_data tab of the formatted output equals the organizer's output,
\* with no key added, removed, renamed or rewritten.
C21_UnformattedPassedVerbatim ==
    (pc = "done" /\ result.success) =>
        PyGet(result.formatted_data, "other_data")
            = organization.organized_data


-----------------------------------------------------------------------------
(* extraction_controller.py, extraction_service.py, vectorize_service.py:  *)
(* the uploaded file from the request to the response.                     *)

EXTRACT_DATA == "ExtractionController.extract_data"

VECTORIZE_PDF == "VectorizeService.vectorize_pdf"

\* the path save_upload_file returns
UPLOAD_PATH == "uploads/20260101_000000_form.pdf"

NO_PATH == "none"

\* what the request holds and what the components called do with it
UploadRequests ==
    [ filename : {"form.pdf", "form.txt", ""},
      force_acord : BOOLEAN,
      save : BOOLEAN,
      acord : BOOLEAN,
      pipeline : {"success", "failure", "raises"},
      json_saved : BOOLEAN,
      vectorize : {"embedded", "no_text", "no_chunks", "raises"} ]

UploadInit ==
    /\ endpoint \in {EXTRACT_DATA, VECTORIZE_PDF}
    /\ upload \in UploadRequests
    /\ endpoint = VECTORIZE_PDF => ~upload.force_acord
    /\ endpoint = EXTRACT_DATA => upload.vectorize = "embedded"
    /\ xpc = "idle"
    /\ stored = FALSE
    /\ cleanup = FALSE
    /\ service_result = NotYet
    /\ http_response = NotYet
    /\ field_mappings = EmptyTable
    /\ PipelineIdle
    /\ MapperIdle
    /\ RulesIdle
    /\ ValidateIdle
    /\ UniversalIdle
    /\ OrganizerIdle
    /\ DetectorIdle
    /\ FormatterIdle
    /\ HelperIdle
    /\ NormalizeIdle
    /\ EmbedIdle
    /\ ConcurrentIdle

outsideUpload ==
    <<pipelineVars, mapperVars, rulesVars, validateVars, universalVars,
      organizerVars, detectorVars, formatterVars, helperVars, normalizeVars,
      embedVars, concurrentVars>>

\* ExtractionController.extract_data: the checks made before the service
\* is called
ValidationError ==
    /\ xpc = "idle"
    /\ endpoint = EXTRACT_DATA
    /\ upload.filename # "form.pdf"
    /\ http_response' = [status |-> "validation_error"]
    /\ xpc' = "done"
    /\ UNCHANGED <<endpoint, upload, stored, cleanup, service_result,
                   outsideUpload>>

\* ExtractionService.extract_data: save_upload_file and its failure return
SaveUpload ==
    /\ xpc = "idle"
    /\ endpoint = EXTRACT_DATA => upload.filename = "form.pdf"
    /\ LET saved == upload.filename = "form.pdf" /\ upload.save
       IN  /\ stored' = saved
           /\ IF saved
              THEN /\ xpc' = "saved"
                   /\ UNCHANGED service_result
              ELSE /\ xpc' = "service_returned"
                   /\ service_result' =
                        [success |-> FALSE, file_path |-> NO_PATH,
                         extraction_method |-> "none", json_file |-> NO_PATH]
    /\ UNCHANGED <<endpoint, upload, cleanup, http_response, outsideUpload>>

\* ExtractionService.extract_data: detection, the pipeline chosen and the
\* three returns that carry file_path
ExtractData ==
    /\ xpc = "saved"
    /\ LET method == IF upload.force_acord \/ upload.acord
                     THEN "acord_hybrid" ELSE "universal_ai"
       IN  service_result' =
             IF upload.pipeline = "success"
             THEN [success |-> TRUE, file_path |-> UPLOAD_PATH,
                   extraction_method |-> method,
                   json_file |-> IF upload.json_saved
                                 THEN "outputs/extraction.json" ELSE NO_PATH]
             ELSE [success |-> FALSE, file_path |-> UPLOAD_PATH,
                   extraction_method |-> "none", json_file |-> NO_PATH]
    /\ xpc' = "service_returned"
    /\ UNCHANGED <<endpoint, upload, stored, cleanup, http_response,
                   outsideUpload>>

\* ExtractionController.extract_data after the service returned
ControllerReturn ==
    /\ xpc = "service_returned"
    /\ endpoint = EXTRACT_DATA
    /\ IF ~service_result.success
       THEN /\ http_response' = [status |-> "server_error"]
            /\ UNCHANGED cleanup
       ELSE /\ cleanup' = (service_result.file_path # NO_PATH)
            /\ http_response' = [status |-> "success"]
    /\ xpc' = "done"
    /\ UNCHANGED <<endpoint, upload, stored, service_result, outsideUpload>>

\* VectorizeService.vectorize_pdf after the service returned, its finally
\* clause included
VectorizeReturn ==
    /\ xpc = "service_returned"
    /\ endpoint = VECTORIZE_PDF
    /\ http_response' =
         [status |-> IF service_result.success /\ upload.vectorize = "embedded"
                     THEN "success" ELSE "failure"]
    /\ IF service_result.file_path # NO_PATH
       THEN /\ cleanup' = TRUE
            /\ stored' = FALSE
       ELSE UNCHANGED <<cleanup, stored>>
    /\ xpc' = "done"
    /\ UNCHANGED <<endpoint, upload, service_result, outsideUpload>>

UploadNext ==
    \/ ValidationError
    \/ SaveUpload
    \/ ExtractData
    \/ ControllerReturn
    \/ VectorizeReturn

SpecUpload == UploadInit /\ [][UploadNext]_vars

\* the upload of this request was written to disk
UploadWasSaved == service_result # NotYet /\ service_result.file_path # NO_PATH

\* C22: in every request whose upload was saved to disk, the deletion of
\* the saved file is performed or scheduled on every exit path, also when
\* the extraction returns success=false or raises.
C22_SavedUploadIsCleanedUp ==
    (xpc = "done" /\ UploadWasSaved) => cleanup


-----------------------------------------------------------------------------
(* pypdf_extractor.py in app/services and in backend/services: field names *)
(* and button fields.                                                      *)

\* backend/services/pypdf_extractor.py: _clean_field_name
_clean_field_name_backend(field_name) ==
    LET cleaned ==
            IF StartsWith(field_name, PREFIX_F_P1)
            THEN SubSeq(field_name, 12, Len(field_name))
            ELSE IF StartsWith(field_name, PREFIX_F)
            THEN SubSeq(field_name, 6, Len(field_name))
            ELSE field_name
        instance_suffixes ==
            { <<"_","A">>, <<"_","B">>, <<"_","C">>, <<"_","D">>,
              <<"_","E">>, <<"_","F">> }
    IN  IF EndsWith(cleaned, INDEX_0)
            /\ ~\E c \in instance_suffixes : Contains(cleaned, c)
        THEN SubSeq(cleaned, 1, Len(cleaned) - 3)
        ELSE cleaned

\* backend/services/pypdf_extractor.py: extract_form_fields, is_checked of
\* a /Btn field
is_checked_backend(value) ==
    IF ~IsNone(value) THEN value.s \in true_values ELSE FALSE

FieldPrefixes == { <<>>, PREFIX_F, PREFIX_F_P1 }

\* names that end with the letter of an instance
LetteredNames ==
    { <<"I","n","s","u","r","e","r","_","F","u","l","l","N","a","m","e","_","A">>,
      <<"P","o","l","i","c","y","_","P","o","l","i","c","y","N","u","m","b","e","r","_","B">>,
      <<"X","_","A">>,
      <<"V","e","h","i","c","l","e","_","G">> }

\* names without one
PlainNames ==
    { <<"F","o","r","m","_","E","d","i","t","i","o","n","D","a","t","e">>,
      <<"P","r","o","d","u","c","e","r">> }

IndexSuffixes == { <<>>, INDEX_0, INDEX_1, INDEX_0 \o INDEX_0 }

RawNames ==
    { p \o x \o i :
        p \in FieldPrefixes, x \in LetteredNames \cup PlainNames,
        i \in IndexSuffixes }

\* /V of a button field
ButtonValues ==
    { NoneV } \cup { StrV(s) : s \in true_values \cup false_values }
        \cup { StrV(<<>>), StrV(<<"/","2">>), StrV(<<"/","C","h","e","c","k","e","d">>), StrV(<<"N","o","n","e">>), StrV(<<"n","u","l","l">>),
               StrV(<<" ","/","O","n"," ">>), StrV(<<" "," "," ">>) }

\* /AS of a button field
AppearanceStates ==
    { NoneV, StrV(<<"/","O","n">>), StrV(<<"/","O","f","f">>), StrV(<<"/","2">>) }

HelperInit ==
    /\ rawName \in RawNames
    /\ buttonField \in [ V : ButtonValues, AS : AppearanceStates ]
    /\ cleanName = NotYet
    /\ isChecked = NotYet
    /\ field_mappings = EmptyTable
    /\ PipelineIdle
    /\ MapperIdle
    /\ RulesIdle
    /\ ValidateIdle
    /\ UniversalIdle
    /\ OrganizerIdle
    /\ DetectorIdle
    /\ FormatterIdle
    /\ UploadIdle
    /\ NormalizeIdle
    /\ EmbedIdle
    /\ ConcurrentIdle

outsideHelper ==
    <<pipelineVars, mapperVars, rulesVars, validateVars, universalVars,
      organizerVars, detectorVars, formatterVars, uploadVars, normalizeVars,
      embedVars, concurrentVars>>

\* clean_name = _clean_field_name(field_name), in each of the two modules
CleanFieldName ==
    /\ cleanName = NotYet
    /\ cleanName' = [app |-> _clean_field_name(rawName),
                     backend |-> _clean_field_name_backend(rawName)]
    /\ UNCHANGED <<rawName, buttonField, isChecked, outsideHelper>>

\* checkboxes[clean_name] of a /Btn field, in each of the two modules
CheckButton ==
    /\ isChecked = NotYet
    /\ isChecked' =
         [app |-> _is_checkbox_checked(buttonField.V, buttonField.AS),
          backend |-> is_checked_backend(buttonField.V)]
    /\ UNCHANGED <<rawName, buttonField, cleanName, outsideHelper>>

HelperNext ==
    \/ CleanFieldName
    \/ CheckButton

SpecHelper == HelperInit /\ [][HelperNext]_vars

\* C23: _clean_field_name strips the fixed prefix path and removes exactly
\* one trailing array index while keeping a lettered instance suffix: a
\* name of the form <prefix>X_A[0] is cleaned to X_A, the same name as
\* <prefix>X_A is cleaned to.
C23_IndexRemovedLetterKept ==
    cleanName # NotYet =>
        \A p \in FieldPrefixes, x \in LetteredNames :
            rawName \in { p \o x \o INDEX_0, p \o x } =>
                /\ cleanName.app = x
                /\ cleanName.backend = x

\* the token the claim reads: the value, or the appearance state when the
\* value is absent
ButtonToken == IF ~IsNone(buttonField.V) THEN buttonField.V ELSE buttonField.AS

\* checked for the true tokens, unchecked for the false ones and for no
\* token or an empty one, checked for any other token
CheckedByToken ==
    IF IsNone(ButtonToken) THEN FALSE
    ELSE IF ButtonToken.s \in true_values THEN TRUE
    ELSE IF ButtonToken.s \in false_values THEN FALSE
    ELSE ButtonToken.s # <<>>

\* C24: the boolean of a button field is determined by its value, or by
\* its appearance state when the value is absent; the true tokens give
\* checked, the false tokens unchecked, and any other non-empty token
\* gives checked.
C24_ButtonCheckedByToken ==
    isChecked # NotYet =>
        /\ isChecked.app = CheckedByToken
        /\ isChecked.backend = CheckedByToken


-----------------------------------------------------------------------------
(* The bulk operations of RulesService and the stored rule set.            *)

BulkOperations ==
    {"create_rules_bulk", "update_rules_bulk", "delete_rules_bulk"}

\* the request's element, as the service stores it
StoredAs(rule_id, rule) ==
    [id |-> rule_id, certificate_type |-> Strip(rule.certificate_type),
     product_name |-> Strip(rule.product_name), is_active |-> rule.is_active]

\* the rows create_rule can have stored
StoredRows ==
    { StoredAs(rule_id, rule) :
        rule_id \in 1..MaxRuleId,
        rule \in { x \in RuleInputs : Strip(x.product_name) # <<>> } }

\* the tables the single calls can have left: no id twice, no pair twice
StoredTables ==
    { t \in SUBSET StoredRows :
        \A r1, r2 \in t :
            ( \/ r1.id = r2.id
              \/ /\ Lower(r1.certificate_type) = Lower(r2.certificate_type)
                 /\ Lower(r1.product_name) = Lower(r2.product_name) )
                => r1 = r2 }

BulkRequests ==
    { [op |-> "create_rules_bulk", args |-> a] :
        a \in ListsUpTo(RuleInputs, MaxBulk) }
    \cup { [op |-> "update_rules_bulk", args |-> a] :
            a \in ListsUpTo(UpdateInputs, MaxBulk) }
    \cup { [op |-> "delete_rules_bulk", args |-> a] :
            a \in ListsUpTo(RuleIds, MaxBulk) }

BulkInit ==
    /\ validation_rules \in StoredTables
    /\ identity = MaxRuleId + 1
    /\ outcome = "none"
    /\ \E request \in BulkRequests :
            last_call = [op |-> request.op, args |-> request.args,
                         before |-> validation_rules]
    /\ field_mappings = EmptyTable
    /\ MapperIdle
    /\ PipelineIdle
    /\ ValidateIdle
    /\ LaterIdle

BulkCreate ==
    /\ outcome = "none"
    /\ last_call.op = "create_rules_bulk"
    /\ Store(create_rules_bulk(validation_rules, identity, last_call.args))

BulkUpdate ==
    /\ outcome = "none"
    /\ last_call.op = "update_rules_bulk"
    /\ Store(update_rules_bulk(validation_rules, identity, last_call.args))

BulkDelete ==
    /\ outcome = "none"
    /\ last_call.op = "delete_rules_bulk"
    /\ Store(delete_rules_bulk(validation_rules, identity, last_call.args))

BulkNext ==
    \/ BulkCreate
    \/ BulkUpdate
    \/ BulkDelete

SpecBulk == BulkInit /\ [][BulkNext]_vars

\* every element of the request of the last call was applied to the rows
\* the call found
RequestApplied ==
    LET args == last_call.args
        before == last_call.before
    IN  CASE last_call.op = "create_rules_bulk" ->
                /\ before \subseteq validation_rules
                /\ Cardinality(validation_rules \ before) = Len(args)
                /\ \A i \in 1..Len(args) :
                        \E r \in validation_rules \ before :
                            r = StoredAs(r.id, args[i])
          [] last_call.op = "update_rules_bulk" ->
                /\ \A i \in 1..Len(args) :
                        StoredAs(args[i].id, args[i]) \in validation_rules
                /\ { r.id : r \in validation_rules } = { r.id : r \in before }
                /\ \A r \in before :
                        r.id \notin { args[i].id : i \in 1..Len(args) }
                            => r \in validation_rules
          [] last_call.op = "delete_rules_bulk" ->
                /\ Range(args) \subseteq { r.id : r \in before }
                /\ validation_rules = { r \in before : r.id \notin Range(args) }

\* C25: a bulk operation that raises, for whatever reason, leaves the
\* stored rule set exactly as it was before the call; one that returns
\* has applied every element of its request.
C25_BulkAllOrNothing ==
    /\ last_call.op \in BulkOperations
    /\ outcome # "ok" => validation_rules = last_call.before
    /\ outcome = "ok" => RequestApplied

\* a bulk creation of two rules refused for its second, a duplicate of a
\* stored rule, after its first was inserted in the transaction
C25_Witness ==
    /\ last_call.op = "create_rules_bulk"
    /\ Len(last_call.args) = 2
    /\ outcome = "ValueError"
    /\ last_call.before # {}
    /\ NormalizeCreate(last_call.args, 1, {}, <<>>).ok
    /\ duplicate_check_query(last_call.before,
            Strip(last_call.args[1].certificate_type),
            Strip(last_call.args[1].product_name)) = {}
    /\ validation_rules = last_call.before

\* a bulk update of two rules refused for its second, a duplicate of a
\* third rule, after its first was applied in the transaction
C25_UpdateRolledBack ==
    /\ last_call.op = "update_rules_bulk"
    /\ Len(last_call.args) = 2
    /\ outcome = "ValueError"
    /\ NormalizeUpdate(last_call.args, 1, {}, {}, <<>>).ok
    /\ duplicate_query(last_call.before,
            Strip(last_call.args[1].certificate_type),
            Strip(last_call.args[1].product_name),
            last_call.args[1].id) = {}
    /\ validation_rules = last_call.before


-----------------------------------------------------------------------------
(* Two calls of RulesService.create_rule / update_rule on the same table.  *)
(* Each query of a call runs on a connection of its own, so the queries of *)
(* two calls made by two workers can interleave.                           *)

\* a call about to start
Pending(op, rule) == [op |-> op, rule |-> rule, pc |-> "start", outcome |-> "none"]

Raised(call, exc) == [call EXCEPT !.pc = "done", !.outcome = exc]

At(call, label) == [call EXCEPT !.pc = label]

\* The next statement of a call that touches the database, with the checks
\* that come before it: the call afterwards and the rows afterwards.
CallStep(call, rows, next_id) ==
    LET certificate_type == Strip(call.rule.certificate_type)
        product_name == Strip(call.rule.product_name)
        same == [call |-> call, rows |-> rows, identity |-> next_id]
    IN  CASE call.pc = "start" /\ (certificate_type = <<>> \/ product_name = <<>>) ->
                [same EXCEPT !.call = Raised(call, "ValueError")]
          [] call.pc = "start" /\ certificate_type # <<>> /\ product_name # <<>>
                /\ call.op = "create_rule" ->
                \* duplicate_rows = db.execute_query(duplicate_query, ...)
                IF duplicate_check_query(rows, certificate_type, product_name) # {}
                THEN [same EXCEPT !.call = Raised(call, "ValueError")]
                ELSE [same EXCEPT !.call = At(call, "write")]
          [] call.pc = "start" /\ certificate_type # <<>> /\ product_name # <<>>
                /\ call.op = "update_rule" ->
                \* existing_rule = db.execute_query(exists_query, ...)
                IF find_query(rows, {call.rule.id}) = {}
                THEN [same EXCEPT !.call = Raised(call, "LookupError")]
                ELSE [same EXCEPT !.call = At(call, "check")]
          [] call.pc = "check" ->
                \* duplicate_rows = db.execute_query(duplicate_query, ...)
                IF duplicate_query(rows, certificate_type, product_name,
                                   call.rule.id) # {}
                THEN [same EXCEPT !.call = Raised(call, "ValueError")]
                ELSE [same EXCEPT !.call = At(call, "write")]
          [] call.pc = "write" /\ call.op = "create_rule" ->
                \* cursor.execute(insert_query, ...); conn.commit()
                [call |-> [call EXCEPT !.pc = "done", !.outcome = "ok"],
                 rows |-> insert_query(rows, next_id, certificate_type,
                                       product_name, call.rule.is_active),
                 identity |-> next_id + 1]
          [] call.pc = "write" /\ call.op = "update_rule" ->
                \* affected_rows = db.execute_non_query(update_query, ...)
                IF find_query(rows, {call.rule.id}) = {}
                THEN [same EXCEPT !.call = Raised(call, "LookupError")]
                ELSE [call |-> [call EXCEPT !.pc = "done", !.outcome = "ok"],
                      rows |-> update_query(rows, certificate_type,
                                    product_name, call.rule.is_active,
                                    call.rule.id),
                      identity |-> next_id]

ConcurrentInit ==
    /\ validation_rules \in { t \in StoredTables : Cardinality(t) <= 1 }
    /\ identity = MaxRuleId + 1
    /\ outcome = "none"
    /\ last_call = NotYet
    /\ callA \in { Pending("create_rule", WithId(0, rule)) : rule \in RuleInputs }
    /\ callB \in { Pending("create_rule", WithId(0, rule)) : rule \in RuleInputs }
                    \cup { Pending("update_rule", rule) : rule \in UpdateInputs }
    /\ field_mappings = EmptyTable
    /\ MapperIdle
    /\ PipelineIdle
    /\ ValidateIdle
    /\ UniversalIdle
    /\ OrganizerIdle
    /\ DetectorIdle
    /\ FormatterIdle
    /\ UploadIdle
    /\ HelperIdle
    /\ NormalizeIdle
    /\ EmbedIdle

outsideConcurrent ==
    <<outcome, last_call, pipelineVars, mapperVars, validateVars,
      universalVars, organizerVars, detectorVars, formatterVars, uploadVars,
      helperVars, normalizeVars, embedVars>>

\* the first call runs its next statement
StepA ==
    /\ callA.pc # "done"
    /\ LET t == CallStep(callA, validation_rules, identity)
       IN  /\ callA' = t.call
           /\ validation_rules' = t.rows
           /\ identity' = t.identity
    /\ UNCHANGED <<callB, outsideConcurrent>>

\* the second call runs its next statement
StepB ==
    /\ callB.pc # "done"
    /\ LET t == CallStep(callB, validation_rules, identity)
       IN  /\ callB' = t.call
           /\ validation_rules' = t.rows
           /\ identity' = t.identity
    /\ UNCHANGED <<callA, outsideConcurrent>>

ConcurrentNext ==
    \/ StepA
    \/ StepB

SpecConcurrent == ConcurrentInit /\ [][ConcurrentNext]_vars

\* the two calls ask for the same pair, case ignored
SamePairAsked ==
    /\ Lower(Strip(callA.rule.certificate_type))
            = Lower(Strip(callB.rule.certificate_type))
    /\ Lower(Strip(callA.rule.product_name))
            = Lower(Strip(callB.rule.product_name))

\* C26: for two create_rule calls, or a create_rule and an update_rule
\* call, that ask for the same case-insensitive pair and whose duplicate
\* check and write interleave in any order, at most one call succeeds and
\* the table never holds two rules with that pair.
C26_UniqueUnderInterleaving ==
    /\ \A r1, r2 \in validation_rules :
            ( /\ Lower(r1.certificate_type) = Lower(r2.certificate_type)
              /\ Lower(r1.product_name) = Lower(r2.product_name) )
                => r1.id = r2.id
    /\ SamePairAsked => ~(callA.outcome = "ok" /\ callB.outcome = "ok")


-----------------------------------------------------------------------------
(* success and error of the result of process()                            *)

\* C27: in every terminal result of process(), success is true if and
\* only if error is null: a successful result carries no error message,
\* also for a fillable PDF that detection classified as not ACORD.
C27_SuccessIffNoError ==
    pc = "done" => (result.success <=> IsNone(result.error))


-----------------------------------------------------------------------------
(* The Direct Mapper's checkbox pass and the formatter.                    *)

\* C28: for every value v, format_checkbox(v) equals
\* format_checkbox(normalize_value(v)): a value is rendered the same
\* whether or not it went through the mapper's normalization.
C28_MapperAndFormatterAgree ==
    (cbResult # NotYet /\ cbMapped # NotYet) => cbResult = cbMapped


-----------------------------------------------------------------------------
(* text_matching.py: normalize_text applied once and twice.                *)

\* text_matching.normalize_text: the statements of
\* ValidationService._normalize_text, with "" for None
normalize_text(value) ==
    IF IsNone(value) THEN <<>> ELSE _normalize_text(value.s)

\* the longest text drawn from the alphabet
MaxTextLen == 5

TextAlphabet == {"a", "B", " ", "."}

NormalizeInputs ==
    { NoneV }
        \cup { StrV(s) : s \in ListsUpTo(TextAlphabet, MaxTextLen) }
        \cup { StrV(<<"A","&","B">>), StrV(<<"a","+","b","/","c","_","d","-","e">>),
               StrV(<<" ","G","e","n","'","l"," "," ","L","i","a","b","."," ">>),
               StrV(<<"9","\t","X","\n","!">>) }

NormalizeInit ==
    /\ ntInput \in NormalizeInputs
    /\ ntOnce = NotYet
    /\ ntTwice = NotYet
    /\ field_mappings = EmptyTable
    /\ PipelineIdle
    /\ MapperIdle
    /\ RulesIdle
    /\ ValidateIdle
    /\ UniversalIdle
    /\ OrganizerIdle
    /\ DetectorIdle
    /\ FormatterIdle
    /\ UploadIdle
    /\ HelperIdle
    /\ EmbedIdle
    /\ ConcurrentIdle

outsideNormalize ==
    <<pipelineVars, mapperVars, rulesVars, validateVars, universalVars,
      organizerVars, detectorVars, formatterVars, uploadVars, helperVars,
      embedVars, concurrentVars>>

NormalizeOnce ==
    /\ ntOnce = NotYet
    /\ ntOnce' = StrV(normalize_text(ntInput))
    /\ UNCHANGED <<ntInput, ntTwice, outsideNormalize>>

NormalizeAgain ==
    /\ ntOnce # NotYet
    /\ ntTwice = NotYet
    /\ ntTwice' = StrV(normalize_text(ntOnce))
    /\ UNCHANGED <<ntInput, ntOnce, outsideNormalize>>

NormalizeNext ==
    \/ NormalizeOnce
    \/ NormalizeAgain

SpecNormalize == NormalizeInit /\ [][NormalizeNext]_vars

\* only lowercase letters, digits and single spaces, no space at either end
Canonical(text) ==
    /\ \A i \in 1..Len(text) : text[i] \in LowerLetters \cup Digits \cup {" "}
    /\ text # <<>> => (text[1] # " " /\ text[Len(text)] # " ")
    /\ \A i \in 1..(Len(text) - 1) : ~(text[i] = " " /\ text[i + 1] = " ")

\* C29: normalize_text is idempotent and canonical: normalizing its output
\* again changes nothing, and the output holds only lowercase letters,
\* digits and single spaces, with no leading, trailing or consecutive
\* spaces.
C29_IdempotentAndCanonical ==
    /\ ntOnce # NotYet => Canonical(ntOnce.s)
    /\ ntTwice # NotYet => ntTwice = ntOnce


-----------------------------------------------------------------------------
(* embedding_service.py: EmbeddingService.embed_batch.  A float is         *)
(* modelled by an integer, 0 for 0.0.                                      *)

\* EmbeddingConfig.MAX_RETRIES
MAX_RETRIES == 3

\* EmbeddingConfig.DIMENSIONS, EMBEDDING_DIMENSIONS of the environment
\* (1024 when it is not set)
DIMENSIONS == 4

\* [0.0] * n
Zeros(n) == [i \in 1..n |-> 0]

\* the embedding of an item of the response, of length n
ItemEmbedding(n) == [i \in 1..n |-> 1]

\* _normalize_embedding returning the embedding as the API gave it
EmbeddingAsReturned(embedding) == embedding

_normalize_embedding(embedding) ==
    IF Len(embedding) = DIMENSIONS THEN embedding
    ELSE IF Len(embedding) > DIMENSIONS THEN SubSeq(embedding, 1, DIMENSIONS)
    ELSE embedding \o Zeros(DIMENSIONS - Len(embedding))

\* cleaned and safe_texts
safe_texts(texts) ==
    [i \in 1..Len(texts) |->
        LET cleaned == IF IsNone(texts[i]) THEN <<>> ELSE Strip(texts[i].s)
        IN  IF cleaned # <<>> THEN cleaned ELSE <<" ">>]

\* the try block of an attempt whose API call returned response
Embeddings(texts, api_response) ==
    LET embeddings ==
            [i \in 1..api_response.count |-> ItemEmbedding(api_response.dim)]
        padded ==
            embeddings \o [i \in 1..(Len(texts) - Len(embeddings)) |->
                                Zeros(DIMENSIONS)]
    IN  [i \in 1..Len(padded) |-> _normalize_embedding(padded[i])]

EmbedTexts ==
    { <<>>,
      <<StrV(<<"a">>)>>,
      <<StrV(<<" ">>), NoneV>>,
      <<StrV(<<"a">>), StrV(<<>>), StrV(<<" ","b"," ">>)>> }

\* what the embeddings API does in a run: the first calls raise, the next
\* one returns count items, at most one per input, whose embeddings have
\* dim values
ApiBehaviours(texts) ==
    [ failures : 0..(MAX_RETRIES + 1),
      count : 0..Len(safe_texts(texts)),
      dim : {DIMENSIONS - 1, DIMENSIONS, DIMENSIONS + 1} ]

EmbedInit ==
    /\ emTexts \in EmbedTexts
    /\ emApi \in ApiBehaviours(emTexts)
    /\ emAttempt = 0
    /\ emCalls = 0
    /\ emResult = NotYet
    /\ field_mappings = EmptyTable
    /\ PipelineIdle
    /\ MapperIdle
    /\ RulesIdle
    /\ ValidateIdle
    /\ UniversalIdle
    /\ OrganizerIdle
    /\ DetectorIdle
    /\ FormatterIdle
    /\ UploadIdle
    /\ HelperIdle
    /\ NormalizeIdle
    /\ ConcurrentIdle

outsideEmbed ==
    <<pipelineVars, mapperVars, rulesVars, validateVars, universalVars,
      organizerVars, detectorVars, formatterVars, uploadVars, helperVars,
      normalizeVars, concurrentVars>>

Returned(vectors) == [vectors |-> vectors]

\* if not texts: return []
EmbedNothing ==
    /\ emResult = NotYet
    /\ emTexts = <<>>
    /\ emResult' = Returned(<<>>)
    /\ UNCHANGED <<emTexts, emApi, emAttempt, emCalls, outsideEmbed>>

\* an iteration of the loop whose call raises: the except clause, and the
\* return after the loop when the retries are used up
AttemptFails ==
    /\ emResult = NotYet
    /\ emTexts # <<>>
    /\ emAttempt <= MAX_RETRIES
    /\ emCalls < emApi.failures
    /\ emCalls' = emCalls + 1
    /\ emAttempt' = emAttempt + 1
    /\ IF emAttempt + 1 > MAX_RETRIES
       THEN emResult' = Returned([i \in 1..Len(emTexts) |-> Zeros(DIMENSIONS)])
       ELSE UNCHANGED emResult
    /\ UNCHANGED <<emTexts, emApi, outsideEmbed>>

\* an iteration of the loop whose call returns
AttemptSucceeds ==
    /\ emResult = NotYet
    /\ emTexts # <<>>
    /\ emAttempt <= MAX_RETRIES
    /\ emCalls >= emApi.failures
    /\ emCalls' = emCalls + 1
    /\ emResult' = Returned(Embeddings(emTexts, emApi))
    /\ UNCHANGED <<emTexts, emApi, emAttempt, outsideEmbed>>

EmbedNext ==
    \/ EmbedNothing
    \/ AttemptFails
    \/ AttemptSucceeds

\* embed_batch is a synchronous call: the thread that runs it goes on to
\* its next statement, and time.sleep(backoff) returns after at most 10 s
SpecEmbed == EmbedInit /\ [][EmbedNext]_vars /\ WF_vars(EmbedNext)

\* the result has one vector of DIMENSIONS values per text, all of them
\* zero vectors when every attempt failed
ResultShape ==
    (emResult # NotYet /\ emTexts # <<>>) =>
        /\ Len(emResult.vectors) = Len(emTexts)
        /\ \A i \in 1..Len(emResult.vectors) :
                Len(emResult.vectors[i]) = DIMENSIONS
        /\ emApi.failures > MAX_RETRIES =>
                \A i \in 1..Len(emResult.vectors) :
                    emResult.vectors[i] = Zeros(DIMENSIONS)

====
